---- MODULE Spec2Model ----
(***************************************************************************)
(* A model of the Swarm overlay control plane (src/src/main.cpp) and of    *)
(* its watchdog (src/src/watchdog.cpp).                                    *)
(*                                                                         *)
(* Numbers: the program's doubles are modelled by integers (every input    *)
(* the model feeds is an integer); LONG casts truncate toward zero.        *)
(* A parsed command line is a function from keys to values (the result of  *)
(* parseSimpleJson); kv.count(k) is k \in DOMAIN kv.                       *)
(***************************************************************************)
EXTENDS Integers, Sequences, FiniteSets, TLC

\* ------------------------------------------------------------ bounds
MaxCursors == 2
MaxPids == 3

\* ------------------------------------------------------------ state
VARIABLES
    cursors,        \* gManager.cursors: sequence of SwarmCursor
    nextId,         \* gManager.nextId
    gScriptPipes,   \* keys of gScriptPipes: ids with a registered, open script channel
    procs,          \* the running script subprocesses: [pid, id (the id argument it got)]
    ahkOk,          \* whether CreateProcessA on gAhkExePath succeeds at present
    events,         \* the lines handed to sendOut by the last dispatched command
    lastCmd,        \* the last dispatched command line (as parsed)
    stateFile,      \* kStateFile: whether it exists, and the lines SaveState wrote
    mtxHung,        \* a thread blocked forever inside gManager.mtx (self-deadlock)
    relockBuild     \* what this build does when a thread re-locks a std::mutex it holds

VARIABLES
    roundTrip       \* history: how far a save, clear, load sequence got, and the
                    \* collection at the save

storeVars == <<cursors, nextId, gScriptPipes, procs, ahkOk, events, lastCmd,
               stateFile, mtxHung, relockBuild, roundTrip>>

VARIABLES
    systemPos,      \* the reference point GetCursorPos returns (the system pointer)
    tickDt,         \* the dt of the last tick, in milliseconds
    tickCount,      \* history: the ticks made so far
    elapsedMs       \* history: the sum of the dt of the ticks made so far

tickVars == <<systemPos, tickDt, tickCount, elapsedMs>>

VARIABLES
    hProcess,       \* watchdog: pi.hProcess is non-null
    childAlive,     \* watchdog: the worker process it launched last is running
    staleCount,     \* watchdog: staleCount
    staleRetries,   \* watchdog: cfg.staleRetries after the clamp
    stopFile,       \* watchdog: cfg.stopFile exists
    wdDone,         \* watchdog: main has left its loop
    pollStale,      \* history: the last poll found the liveness record stale
    pollAlive,      \* history: at the last poll's start the handle was set and the worker ran
    pollOps,        \* history: the TerminateProcess / launch calls of the last poll, in order
    staleRun,       \* history: the stale polls of the run the last poll belongs to
    runAlive,       \* history: the worker was alive at the start of every poll of that run
    runOps          \* history: the TerminateProcess / launch calls of that run, in order

wdVars == <<hProcess, childAlive, staleCount, staleRetries, stopFile, wdDone,
            pollStale, pollAlive, pollOps, staleRun, runAlive, runOps>>

VARIABLES
    conn,           \* per listener worker: where it is with the client it serves
    trailingNewline,\* whether the clients end their last line with a newline
    gOutPipeReady,  \* gOutPipeReady: an event subscriber is attached
    gotAdded,       \* history: per client, the added events its commands emitted
    gotListDone,    \* history: per client, the listDone events its commands emitted
    outAdded,       \* history: the added events written to the outbound pipe
    outListDone     \* history: the listDone events written to the outbound pipe

poolVars == <<conn, trailingNewline, gOutPipeReady, gotAdded, gotListDone, outAdded,
              outListDone>>

\* number of concurrent listener threads
kInboundListenerCount == 8

Workers == 1 .. kInboundListenerCount

VARIABLES
    toSend,         \* per client: the bytes it has still to write to its connection
    inPipe,         \* per connection: the bytes written and not yet read
    closed,         \* per connection: the client has closed its end
    chunk,          \* per handler: the bytes of chunk[] not yet looked at
    buffer,         \* per handler: its local string buffer
    handlerDone,    \* per handler: InboundClientHandler has returned
    pending,        \* per handler: the events its running dispatch has still to send
    sending,        \* per handler: it is inside sendOut, past the lock_guard
    wr,             \* per handler: the bytes its WriteFile has still to put in the pipe
    gOutPipeMtx,    \* the holder of gOutPipeMtx, 0 if free
    dispatched,     \* history: per handler, the strings it passed to handleCommand
    emitted,        \* history: per handler, the events its dispatches handed to sendOut
    outBytes        \* history: the bytes in the outbound pipe, each with its writer

lineVars == <<toSend, inPipe, closed, chunk, buffer, handlerDone, pending, sending, wr,
              gOutPipeMtx, dispatched, emitted, outBytes>>

VARIABLES
    pointerOps      \* history: the pointer steps of the last mouse command, in order

mouseVars == <<pointerOps>>

VARIABLES
    outPc,          \* where OutPipeThread is in its loop
    subAttached,    \* a subscriber holds the other end of the outbound pipe
    emPc,           \* per emitting thread: where it is in handleCommand and sendOut
    emPending,      \* per emitting thread: the events it has still to pass to sendOut
    delivered       \* history: the events written to the present subscriber, in order

attachVars == <<outPc, subAttached, emPc, emPending, delivered>>

VARIABLES
    clients         \* the command-channel clients: how far each one got, the worker
                    \* whose handler took it, whether its end is open, whether its
                    \* line has been dispatched

serveVars == <<clients>>

VARIABLES
    hbAge,          \* the age of the liveness record, in heartbeat periods
    stalled,        \* the worker's tick task or command dispatch has stopped for good
    hbDue,          \* HeartbeatThread's sleep has ended and its next write is due
    pollDue         \* the watchdog's sleep has ended and its next poll is due

hbVars == <<hbAge, stalled, hbDue, pollDue>>

VARIABLES
    script          \* one Scripted entity seen step by step: the entity, its
                    \* subprocess, its ScriptPipeInfo, the reader task, the threads
                    \* dispatching a remove for it, and the calls made so far

scriptVars == <<script>>

VARIABLES
    locks           \* gManager.mtx seen step by step: its holder, where the tick
                    \* task, a command handler and a script reader stand, and what
                    \* has been observed of their writes to the collection

lockVars == <<locks>>

VARIABLES
    adds            \* per client of the add race: the add line its handler
                    \* dispatches, the statement it stands at and the cursor built

idVars == <<adds>>

VARIABLES
    threads         \* the worker process at shutdown: the running flag, where
                    \* wWinMain and each of its five tasks stand, whether an
                    \* event subscriber is attached

shutVars == <<threads>>

VARIABLES
    gApiCommandCount  \* the counter that perf reports as apiCount

countVars == <<gApiCommandCount>>

VARIABLES
    calls           \* the nested calls of a reload or load command: per call the
                    \* file it reads and the line it has come to; and how often
                    \* each line of each file was dispatched

reloadVars == <<calls>>

lateVars == <<idVars, shutVars, countVars, reloadVars>>

extVars == <<serveVars, hbVars, scriptVars, lockVars, lateVars>>

vars == <<storeVars, tickVars, wdVars, poolVars, lineVars, mouseVars, attachVars, extVars>>

otherThanStore == <<tickVars, wdVars, poolVars, lineVars, mouseVars, attachVars, extVars>>
otherThanWd == <<storeVars, tickVars, poolVars, lineVars, mouseVars, attachVars, extVars>>
otherThanTick == <<wdVars, poolVars, lineVars, mouseVars, attachVars, extVars>>
otherThanPool == <<tickVars, wdVars, lineVars, mouseVars, attachVars, extVars>>
otherThanLines == <<tickVars, wdVars, poolVars, mouseVars, attachVars, extVars>>
otherThanMouse == <<wdVars, poolVars, lineVars, attachVars, extVars>>
\* everything but the store, attachVars, gOutPipeReady and gOutPipeMtx
otherThanAttach ==
    <<tickVars, wdVars, mouseVars, extVars,
      conn, trailingNewline, gotAdded, gotListDone, outAdded, outListDone,
      toSend, inPipe, closed, chunk, buffer, handlerDone, pending, sending, wr,
      dispatched, emitted, outBytes>>

NoFile == [exists |-> FALSE, lines |-> <<>>]

\* ------------------------------------------------------------ helpers
Has(kv, k) == k \in DOMAIN kv

Field(kv, k, cur) == IF k \in DOMAIN kv THEN kv[k] ELSE cur

RGB(r, g, b) == r + 256 * g + 65536 * b

Indices(s) == 1..Len(s)

\* struct SwarmCursor, default member initialisers
SwarmCursor ==
    [id |-> 0, behavior |-> "Mirror", pos |-> <<0, 0>>, target |-> <<0, 0>>,
     color |-> RGB(255, 0, 0), size |-> 12, offsetX |-> 0, offsetY |-> 0,
     radius |-> 60, angle |-> 0, speed |-> 1, lagMs |-> 120,
     initialized |-> FALSE, scriptPath |-> "", scriptPi |-> 0,
     scriptProcessRunning |-> FALSE]

\* (int)c.behavior: the position of the enumerator in enum class BehaviorType
BehaviorCode(b) ==
    CASE b = "Mirror" -> 0
      [] b = "Static" -> 1
      [] b = "Orbit" -> 2
      [] b = "FollowLag" -> 3
      [] b = "Script" -> 4

parseBehavior(b) ==
    IF b = "static" THEN "Static"
    ELSE IF b = "orbit" THEN "Orbit"
    ELSE IF b = "follow" \/ b = "followlag" THEN "FollowLag"
    ELSE IF b = "script" THEN "Script"
    ELSE "Mirror"

\* A colour token is the sequence of its characters.
HexDigits == <<"0", "1", "2", "3", "4", "5", "6", "7", "8", "9",
               "a", "b", "c", "d", "e", "f", "A", "B", "C", "D", "E", "F">>

hexVal(ch) ==
    IF \E i \in 1..Len(HexDigits) : HexDigits[i] = ch
    THEN LET i == CHOOSE j \in 1..Len(HexDigits) : HexDigits[j] = ch
         IN IF i <= 16 THEN i - 1 ELSE i - 7
    ELSE 0

parseColor(s) ==
    IF Len(s) = 7 /\ s[1] = "#"
    THEN RGB(hexVal(s[2]) * 16 + hexVal(s[3]),
             hexVal(s[4]) * 16 + hexVal(s[5]),
             hexVal(s[6]) * 16 + hexVal(s[7]))
    ELSE RGB(255, 255, 255)

\* ------------------------------------------------------------ events
EvAdded(id, b) == [event |-> "added", id |-> id, behavior |-> BehaviorCode(b)]
EvRemoved(id, ok) == [event |-> "removed", id |-> id, ok |-> ok]
EvUpdated(id, b) == [event |-> "updated", id |-> id, behavior |-> BehaviorCode(b)]
EvTweaked(id) == [event |-> "tweaked", id |-> id]
EvCleared == [event |-> "cleared"]
EvCursor(c) == [event |-> "cursor", id |-> c.id, behavior |-> BehaviorCode(c.behavior),
                x |-> c.pos[1], y |-> c.pos[2]]
EvListDone == [event |-> "listDone"]
EvScriptError(id, code) == [event |-> "scriptError", id |-> id, code |-> code]
EvScriptLaunched(id) == [event |-> "scriptLaunched", id |-> id]
EvError(op) == [event |-> "error", msg |-> op]

\* ------------------------------------------------------------ the world
(* The handlers are functions from a world to a world: st holds the program *)
(* state a handler reads and writes.                                        *)
World ==
    [cursors |-> cursors, nextId |-> nextId, gScriptPipes |-> gScriptPipes,
     procs |-> procs, ahkOk |-> ahkOk, events |-> <<>>,
     stateFile |-> stateFile, mtxHung |-> mtxHung]

sendOut(st, line) == [st EXCEPT !.events = Append(@, line)]

\* ------------------------------------------------------------ ScriptSupervisor
(* StartScriptPipe: CreateNamedPipeW is called with nMaxInstances = 1, so it *)
(* fails while a channel of the same name (the same id) is still open; the   *)
(* reader task is started and the record registered only when it succeeds.   *)
StartScriptPipe(st, id) ==
    IF id \in st.gScriptPipes
    THEN sendOut(st, EvScriptError(id, "createPipe"))
    ELSE [st EXCEPT !.gScriptPipes = @ \cup {id}]

\* StopScriptPipe: drop the record, clear its flag, close the channel handle
StopScriptPipe(st, id) == [st EXCEPT !.gScriptPipes = @ \ {id}]

(* The pid of a new process: one that no running process has and that no   *)
(* cursor holds an open process handle to.                                  *)
PidsInUse(st) ==
    {p.pid : p \in st.procs} \cup
    {st.cursors[i].scriptPi : i \in {j \in Indices(st.cursors) :
                                        st.cursors[j].scriptProcessRunning}}

NewPid(st) == CHOOSE p \in 1..(Cardinality(PidsInUse(st)) + 1) :
                  /\ p \notin PidsInUse(st)
                  /\ \A q \in 1..(p - 1) : q \in PidsInUse(st)

LaunchScriptProcess(st, i) ==
    LET c == st.cursors[i]
    IN IF c.scriptPath = "" THEN st
       ELSE LET s1 == StartScriptPipe(st, c.id)
                pid == NewPid(s1)
            IN IF ~s1.ahkOk
               THEN sendOut(s1, EvScriptError(c.id, "launchFail"))
               ELSE sendOut([s1 EXCEPT !.cursors[i].scriptPi = pid,
                                       !.cursors[i].scriptProcessRunning = TRUE,
                                       !.procs = @ \cup {[pid |-> pid, id |-> c.id]}],
                            EvScriptLaunched(c.id))

\* CleanupScriptProcess: TerminateProcess unless the process has exited already
CleanupScriptProcess(st, i) ==
    LET c == st.cursors[i]
    IN IF ~c.scriptProcessRunning THEN st
       ELSE [st EXCEPT !.procs = {p \in @ : p.pid # c.scriptPi},
                       !.cursors[i].scriptProcessRunning = FALSE]

\* ------------------------------------------------------------ EntityStore
\* SwarmManager::addCursor: the id it returns, and the store after it
addCursorId(st, base) == IF base.id = 0 THEN st.nextId ELSE base.id

addCursor(st, base) ==
    [st EXCEPT !.nextId = IF base.id = 0 THEN @ + 1 ELSE @,
               !.cursors = Append(@, [base EXCEPT !.id = addCursorId(st, base)])]

removeCursorFound(st, id) == \E i \in Indices(st.cursors) : st.cursors[i].id = id

removeCursor(st, id) ==
    [st EXCEPT !.cursors = SelectSeq(@, LAMBDA c : c.id # id)]

\* ------------------------------------------------------------ CommandProtocol
\* the size field: accepted only when 2 < s < 400
SizeField(kv, cur) ==
    IF Has(kv, "size") /\ kv["size"] > 2 /\ kv["size"] < 400 THEN kv["size"] ELSE cur

\* handleCommand, cmd == "add": the cursor built from the line
AddBase(kv) ==
    LET beh == IF Has(kv, "behavior") THEN parseBehavior(kv["behavior"]) ELSE "Mirror"
        tgt == <<Field(kv, "x", 0), Field(kv, "y", 0)>>
    IN [SwarmCursor EXCEPT
           !.id = Field(kv, "id", 0),
           !.color = IF Has(kv, "color") THEN parseColor(kv["color"]) ELSE RGB(0, 200, 255),
           !.behavior = beh,
           !.offsetX = Field(kv, "offsetX", @),
           !.offsetY = Field(kv, "offsetY", @),
           !.radius = Field(kv, "radius", @),
           !.speed = Field(kv, "speed", @),
           !.target = tgt,
           !.lagMs = Field(kv, "lagMs", @),
           !.size = SizeField(kv, 12),
           !.scriptPath = Field(kv, "script", @),
           !.pos = IF beh = "Static" THEN tgt ELSE @]

RECURSIVE AddLaunchLoop(_, _, _)
AddLaunchLoop(st, i, id) ==
    IF i > Len(st.cursors) THEN st
    ELSE AddLaunchLoop(IF st.cursors[i].id = id THEN LaunchScriptProcess(st, i) ELSE st,
                       i + 1, id)

(* cmd == "add". nextId is atomic and is raised before the store lock is    *)
(* taken, so that part happens even when the lock is never obtained.        *)
DoAdd(st, kv) ==
    LET base == AddBase(kv)
        s0 == [st EXCEPT !.nextId = IF Has(kv, "id") /\ base.id >= @ THEN base.id + 1 ELSE @]
        id == addCursorId(s0, base)
        s1 == addCursor(s0, base)
        s2 == IF base.behavior = "Script" THEN AddLaunchLoop(s1, 1, id) ELSE s1
    IN IF st.mtxHung THEN s0 ELSE sendOut(s2, EvAdded(id, base.behavior))

RECURSIVE RemoveCleanupLoop(_, _, _)
RemoveCleanupLoop(st, i, id) ==
    IF i > Len(st.cursors) THEN st
    ELSE RemoveCleanupLoop(
             IF st.cursors[i].id = id /\ st.cursors[i].behavior = "Script"
             THEN CleanupScriptProcess(st, i) ELSE st,
             i + 1, id)

(* cmd == "remove". The handler holds gManager.mtx and calls removeCursor,  *)
(* which locks the same std::mutex again: undefined behaviour. A build      *)
(* either lets the owner through (relockBuild = "recursive") or blocks the  *)
(* thread forever with the lock held (relockBuild = "deadlock").            *)
DoRemove(st, kv) ==
    IF ~Has(kv, "id") \/ st.mtxHung THEN st
    ELSE LET id == kv["id"]
             s1 == StopScriptPipe(RemoveCleanupLoop(st, 1, id), id)
         IN IF relockBuild = "deadlock"
            THEN [s1 EXCEPT !.mtxHung = TRUE]
            ELSE sendOut(removeCursor(s1, id), EvRemoved(id, removeCursorFound(s1, id)))

SetFieldsMovesToTarget(c, kv) ==
    LET beh == IF Has(kv, "behavior") THEN parseBehavior(kv["behavior"]) ELSE c.behavior
        tgt == <<Field(kv, "x", c.target[1]), Field(kv, "y", c.target[2])>>
    IN [c EXCEPT
           !.behavior = beh,
           !.offsetX = Field(kv, "offsetX", @),
           !.offsetY = Field(kv, "offsetY", @),
           !.radius = Field(kv, "radius", @),
           !.speed = Field(kv, "speed", @),
           !.target = tgt,
           !.lagMs = Field(kv, "lagMs", @),
           !.color = IF Has(kv, "color") THEN parseColor(kv["color"]) ELSE @,
           !.size = SizeField(kv, @),
           !.pos = IF Has(kv, "x") \/ Has(kv, "y") THEN tgt ELSE @]

SetFields(c, kv) ==
    [c EXCEPT
        !.behavior = IF Has(kv, "behavior") THEN parseBehavior(kv["behavior"]) ELSE @,
        !.offsetX = Field(kv, "offsetX", @),
        !.offsetY = Field(kv, "offsetY", @),
        !.radius = Field(kv, "radius", @),
        !.speed = Field(kv, "speed", @),
        !.target = <<Field(kv, "x", @[1]), Field(kv, "y", @[2])>>,
        !.lagMs = Field(kv, "lagMs", @),
        !.color = IF Has(kv, "color") THEN parseColor(kv["color"]) ELSE @,
        !.size = SizeField(kv, @)]

RECURSIVE SetLoop(_, _, _)
SetLoop(st, i, kv) ==
    IF i > Len(st.cursors) THEN st
    ELSE SetLoop(
             IF st.cursors[i].id = kv["id"]
             THEN LET c == SetFields(st.cursors[i], kv)
                  IN sendOut([st EXCEPT !.cursors[i] = c], EvUpdated(c.id, c.behavior))
             ELSE st,
             i + 1, kv)

\* cmd == "set"
DoSet(st, kv) ==
    IF ~Has(kv, "id") \/ st.mtxHung THEN st ELSE SetLoop(st, 1, kv)

TweakFields(c, kv) ==
    [c EXCEPT
        !.radius = Field(kv, "radius", @) + Field(kv, "radiusDelta", 0),
        !.speed = Field(kv, "speed", @) + Field(kv, "speedDelta", 0),
        !.lagMs = Field(kv, "lagMs", @),
        !.offsetX = Field(kv, "offsetX", @),
        !.offsetY = Field(kv, "offsetY", @),
        !.size = SizeField(kv, @),
        !.color = IF Has(kv, "color") THEN parseColor(kv["color"]) ELSE @]

\* cmd == "tweak": the first cursor with the id only (the loop breaks)
DoTweak(st, kv) ==
    IF ~Has(kv, "id") \/ st.mtxHung THEN st
    ELSE IF ~removeCursorFound(st, kv["id"]) THEN st
    ELSE LET i == CHOOSE j \in Indices(st.cursors) :
                      /\ st.cursors[j].id = kv["id"]
                      /\ \A k \in 1..(j - 1) : st.cursors[k].id # kv["id"]
         IN sendOut([st EXCEPT !.cursors[i] = TweakFields(@, kv)], EvTweaked(kv["id"]))

RECURSIVE ClearLoop(_, _)
ClearLoop(st, i) ==
    IF i > Len(st.cursors) THEN st
    ELSE ClearLoop(
             IF st.cursors[i].behavior = "Script"
             THEN StopScriptPipe(CleanupScriptProcess(st, i), st.cursors[i].id)
             ELSE st,
             i + 1)

\* cmd == "clear"
DoClear(st) ==
    IF st.mtxHung THEN st
    ELSE sendOut([ClearLoop(st, 1) EXCEPT !.cursors = <<>>], EvCleared)

RECURSIVE ListLoop(_, _, _)
ListLoop(st, copy, i) ==
    IF i > Len(copy) THEN st ELSE ListLoop(sendOut(st, EvCursor(copy[i])), copy, i + 1)

\* DoList with the sentinel sent before the per-cursor events
DoListDoneFirst(st) ==
    IF st.mtxHung THEN st
    ELSE ListLoop(sendOut(st, EvListDone), st.cursors, 1)

\* cmd == "list": a copy taken under the lock, then one event per copied cursor
DoList(st) ==
    IF st.mtxHung THEN st
    ELSE sendOut(ListLoop(st, st.cursors, 1), EvListDone)

\* ------------------------------------------------------------ persistence
Abs(x) == IF x < 0 THEN -x ELSE x

RECURSIVE Pow10(_)
Pow10(n) == IF n = 0 THEN 1 ELSE 10 * Pow10(n - 1)

RECURSIVE NumDigits(_)
NumDigits(x) == IF x < 10 THEN 1 ELSE 1 + NumDigits(x \div 10)

(* operator<<(double) with the stream's default precision: six significant  *)
(* digits. The value read back from the text (atof) is the rounded one.     *)
FmtDouble(x) ==
    LET a == Abs(x)
        d == NumDigits(a)
    IN IF d <= 6 THEN x
       ELSE LET scale == Pow10(d - 6)
                r == ((a + scale \div 2) \div scale) * scale
            IN IF x < 0 THEN -r ELSE r

BehaviorName(b) ==
    IF b = "Mirror" THEN "mirror"
    ELSE IF b = "Static" THEN "static"
    ELSE IF b = "Orbit" THEN "orbit"
    ELSE IF b = "FollowLag" THEN "follow"
    ELSE "script"

\* SaveState: the line written for one cursor, as the parser reads it back
SaveLine(c) ==
    LET base == [op |-> "cursor/add", id |-> c.id, behavior |-> BehaviorName(c.behavior),
                 offsetX |-> FmtDouble(c.offsetX), offsetY |-> FmtDouble(c.offsetY),
                 radius |-> FmtDouble(c.radius), speed |-> FmtDouble(c.speed),
                 lagMs |-> FmtDouble(c.lagMs), x |-> c.target[1], y |-> c.target[2],
                 size |-> c.size]
    IN IF c.behavior = "Script" /\ c.scriptPath # ""
       THEN ("script" :> c.scriptPath) @@ base
       ELSE base

SaveState(st) ==
    IF st.mtxHung THEN st
    ELSE [st EXCEPT !.stateFile = [exists |-> TRUE,
                                 lines |-> [i \in Indices(st.cursors) |->
                                               SaveLine(st.cursors[i])]]]

RECURSIVE LoadRelaunchLoop(_, _)
LoadRelaunchLoop(st, i) ==
    IF i > Len(st.cursors) THEN st
    ELSE LoadRelaunchLoop(
             IF st.cursors[i].behavior = "Script" /\ ~st.cursors[i].scriptProcessRunning
             THEN LaunchScriptProcess(st, i) ELSE st,
             i + 1)

\* op canonicalization: the modern names and the legacy action of each
OpToCmd ==
    [x \in {"cursor/add", "cursor/update", "cursor/remove", "cursor/clear", "cursor/list",
            "mouse/click", "mouse/down", "mouse/up", "mouse/drag", "state/save",
            "state/load", "state/reload", "sys/exit", "sys/perf", "config/setAhk",
            "debug/mode", "cursor/tweak"} |->
        CASE x = "cursor/add" -> "add"
          [] x = "cursor/update" -> "set"
          [] x = "cursor/remove" -> "remove"
          [] x = "cursor/clear" -> "clear"
          [] x = "cursor/list" -> "list"
          [] x = "mouse/click" -> "clickId"
          [] x = "mouse/down" -> "downId"
          [] x = "mouse/up" -> "upId"
          [] x = "mouse/drag" -> "dragId"
          [] x = "state/save" -> "save"
          [] x = "state/load" -> "load"
          [] x = "state/reload" -> "reload"
          [] x = "sys/exit" -> "exit"
          [] x = "sys/perf" -> "perf"
          [] x = "config/setAhk" -> "setAhk"
          [] x = "debug/mode" -> "debug"
          [] x = "cursor/tweak" -> "tweak"]

RECURSIVE handleCommand(_, _)
RECURSIVE LoadLines(_, _)

\* LoadState: every line of the file goes through handleCommand
LoadLines(st, lines) ==
    IF lines = <<>> THEN st
    ELSE LoadLines(handleCommand(st, Head(lines)), Tail(lines))

LoadState(st) ==
    IF ~st.stateFile.exists THEN st
    ELSE LET s1 == LoadLines(st, st.stateFile.lines)
         IN IF s1.mtxHung THEN s1 ELSE LoadRelaunchLoop(s1, 1)

\* handleCommand after canonicalization: the dispatch on cmd
Dispatch(st, kv) ==
    IF ~Has(kv, "cmd") THEN st
    ELSE LET cmd == kv["cmd"]
         IN IF cmd = "add" THEN DoAdd(st, kv)
            ELSE IF cmd = "remove" THEN DoRemove(st, kv)
            ELSE IF cmd = "set" THEN DoSet(st, kv)
            ELSE IF cmd = "clear" THEN DoClear(st)
            ELSE IF cmd = "list" THEN DoList(st)
            ELSE IF cmd = "save" THEN SaveState(st)
            ELSE IF cmd = "load" THEN LoadState(st)
            ELSE IF cmd = "tweak" THEN DoTweak(st, kv)
            ELSE st

HelpOps == <<"cursor/add", "cursor/update", "cursor/remove", "cursor/clear", "cursor/list",
             "mouse/click", "mouse/down", "mouse/up", "mouse/drag",
             "state/save", "state/load", "state/reload",
             "sys/exit", "sys/perf", "config/setAhk", "debug/mode">>

RECURSIVE HelpLoop(_, _)
HelpLoop(st, i) ==
    IF i > Len(HelpOps) THEN st
    ELSE HelpLoop(sendOut(st, [event |-> "help", op |-> HelpOps[i]]), i + 1)

\* the names the if / else-if chain on cmd has a branch for
LegacyCmds ==
    {"add", "setAhk", "remove", "set", "debug", "clear", "list", "exit", "click",
     "clickId", "downId", "upId", "dragId", "perf", "save", "load", "reload", "tweak"}

\* the line carries an op that is neither help nor one of the known names
UnknownOp(kv) == Has(kv, "op") /\ kv["op"] # "help" /\ kv["op"] \notin DOMAIN OpToCmd

handleCommandFallsThrough(st, kv) ==
    IF Has(kv, "op") /\ kv["op"] = "help"
    THEN sendOut(HelpLoop(st, 1), [event |-> "helpDone"])
    ELSE IF UnknownOp(kv) THEN Dispatch(sendOut(st, EvError(kv["op"])), kv)
    ELSE IF Has(kv, "op") THEN Dispatch(st, ("cmd" :> OpToCmd[kv["op"]]) @@ kv)
    ELSE Dispatch(st, kv)

handleCommand(st, kv) ==
    IF Has(kv, "op")
    THEN IF kv["op"] = "help"
         THEN sendOut(HelpLoop(st, 1), [event |-> "helpDone"])
         ELSE IF kv["op"] \in DOMAIN OpToCmd
         THEN Dispatch(st, ("cmd" :> OpToCmd[kv["op"]]) @@ kv)
         ELSE sendOut(st, EvError(kv["op"]))
    ELSE Dispatch(st, kv)

\* ------------------------------------------------------------ the dispatcher
MaxNextId == 7

\* nextId after wWinMain has seeded its five cursors
SeedNextId == 6

Bounded(w) ==
    /\ Len(w.cursors) <= MaxCursors
    /\ \A p \in w.procs : p.pid <= MaxPids
    /\ w.nextId <= MaxNextId

\* how far a save, clear, load sequence got after the command kv
RoundTripStep(kv, w) ==
    CASE Field(kv, "cmd", "") = "save" -> [phase |-> "saved", saved |-> cursors]
      [] Field(kv, "cmd", "") = "clear" /\ roundTrip.phase = "saved" ->
             [roundTrip EXCEPT !.phase = "cleared"]
      [] Field(kv, "cmd", "") = "load" /\ roundTrip.phase = "cleared" ->
             [roundTrip EXCEPT !.phase = "loaded"]
      [] OTHER -> [phase |-> "none", saved |-> <<>>]

Commit(w, kv) ==
    /\ cursors' = w.cursors
    /\ nextId' = w.nextId
    /\ gScriptPipes' = w.gScriptPipes
    /\ procs' = w.procs
    /\ events' = w.events
    /\ stateFile' = w.stateFile
    /\ mtxHung' = w.mtxHung
    /\ lastCmd' = kv
    /\ roundTrip' = RoundTripStep(kv, w)
    /\ UNCHANGED <<ahkOk, relockBuild>>

\* one line arrives from a client and handleCommand runs on it to its end
ClientCommand(kv) ==
    \E w \in {handleCommand(World, kv)} :
        Bounded(w) /\ Commit(w, kv) /\ UNCHANGED otherThanStore

Red == <<"#", "F", "F", "0", "0", "0", "0">>

AddLines ==
    { [cmd |-> "add", behavior |-> "orbit", radius |-> 100, speed |-> 1, color |-> Red],
      [cmd |-> "add", id |-> 1, behavior |-> "script", script |-> "a.ahk"],
      [cmd |-> "add", id |-> 7, behavior |-> "static", x |-> 5, y |-> 7] }

RemoveLines == { [cmd |-> "remove", id |-> i] : i \in {1, 6} }

SetLines ==
    { [cmd |-> "set", id |-> 1, behavior |-> "mirror"],
      [cmd |-> "set", id |-> 6, behavior |-> "script", size |-> 500] }

TweakLines == { [cmd |-> "tweak", id |-> 1, radius |-> 80, color |-> Red] }

CmdAdd == \E kv \in AddLines : ClientCommand(kv)
CmdRemove == \E kv \in RemoveLines : ClientCommand(kv)
CmdSet == \E kv \in SetLines : ClientCommand(kv)
CmdTweak == \E kv \in TweakLines : ClientCommand(kv)
CmdClear == ClientCommand([cmd |-> "clear"])
CmdList == ClientCommand([cmd |-> "list"])
CmdSave == ClientCommand([cmd |-> "save"])
CmdLoad == ClientCommand([cmd |-> "load"])

\* a script subprocess ends by itself
ScriptProcessExits ==
    \E p \in procs :
        /\ procs' = procs \ {p}
        /\ lastCmd' = [cmd |-> "(process exit)"]
        /\ events' = <<>>
        /\ UNCHANGED <<cursors, nextId, gScriptPipes, ahkOk, stateFile, mtxHung,
                       relockBuild, roundTrip, otherThanStore>>


\* the store after startup and a clear: no cursor, the seeds' ids used up
StoreInit ==
    /\ cursors = <<>>
    /\ nextId = SeedNextId
    /\ gScriptPipes = {}
    /\ procs = {}
    /\ events = <<>>
    /\ lastCmd = [cmd |-> "(none)"]
    /\ stateFile = NoFile
    /\ mtxHung = FALSE
    /\ roundTrip = [phase |-> "none", saved |-> <<>>]

\* the tick task before its first tick
TickIdle ==
    /\ systemPos = <<0, 0>>
    /\ tickDt = 16
    /\ tickCount = 0
    /\ elapsedMs = 0

\* the watchdog process not started
WdIdle ==
    /\ hProcess = FALSE
    /\ childAlive = FALSE
    /\ staleCount = 0
    /\ staleRetries = 2
    /\ stopFile = FALSE
    /\ wdDone = FALSE
    /\ pollStale = FALSE
    /\ pollAlive = FALSE
    /\ pollOps = <<>>
    /\ staleRun = 0
    /\ runAlive = TRUE
    /\ runOps = <<>>

\* the listener pool with every worker waiting for a client
PoolIdle ==
    /\ conn = [c \in Workers |-> "listening"]
    /\ trailingNewline = TRUE
    /\ gOutPipeReady = TRUE
    /\ gotAdded = [c \in Workers |-> 0]
    /\ gotListDone = [c \in Workers |-> 0]
    /\ outAdded = 0
    /\ outListDone = 0

\* the threads that emit events while the subscriber attaches
Emitters == {1, 2}

\* the name under which OutPipeThread holds gOutPipeMtx
OutThread == Cardinality(Emitters) + 1

EvConnected == [event |-> "connected"]

\* a subscriber attached and greeted, no emitter at work
AttachIdle ==
    /\ outPc = "serving"
    /\ subAttached = TRUE
    /\ emPc = [e \in Emitters |-> "idle"]
    /\ emPending = [e \in Emitters |-> <<>>]
    /\ delivered = <<EvConnected>>

\* no client has tried the command channel yet
ServeIdle == clients = <<>>

\* the liveness record just written, the worker making progress
HbIdle == hbAge = 0 /\ stalled = FALSE /\ hbDue = FALSE /\ pollDue = FALSE

\* no Scripted entity is looked at step by step
ScriptIdle == script = <<>>

\* gManager.mtx is not looked at step by step
LockIdle == locks = <<>>

\* no add race, no shutdown, no counted command, no reload under way
LateIdle == adds = <<>> /\ threads = <<>> /\ gApiCommandCount = 0 /\ calls = <<>>

ExtIdle == ServeIdle /\ HbIdle /\ ScriptIdle /\ LockIdle /\ LateIdle

\* no mouse command yet
MouseIdle == pointerOps = <<>>

\* no byte-level connection open
LinesIdle ==
    /\ toSend = <<>>
    /\ inPipe = <<>>
    /\ closed = <<>>
    /\ chunk = <<>>
    /\ buffer = <<>>
    /\ handlerDone = <<>>
    /\ pending = <<>>
    /\ sending = <<>>
    /\ wr = <<>>
    /\ gOutPipeMtx = 0
    /\ dispatched = <<>>
    /\ emitted = <<>>
    /\ outBytes = <<>>

Init ==
    /\ StoreInit
    /\ ahkOk \in BOOLEAN
    /\ relockBuild \in {"recursive", "deadlock"}
    /\ TickIdle
    /\ WdIdle
    /\ PoolIdle
    /\ LinesIdle
    /\ MouseIdle
    /\ AttachIdle
    /\ ExtIdle

Next ==
    \/ CmdAdd
    \/ CmdRemove
    \/ CmdSet
    \/ CmdClear
    \/ CmdList
    \/ ScriptProcessExits

Spec == Init /\ [][Next]_vars

\* ------------------------------------------------------------ claims, Spec
Range(s) == { s[i] : i \in DOMAIN s }

\* C1: no two live entities of the store share an id.
C1_UniqueIds ==
    \A i, j \in Indices(cursors) : i # j => cursors[i].id # cursors[j].id

(* C2: a remove command for an id that is not in the store completes and    *)
(* emits one removed event with ok = false for that id, and leaves the      *)
(* entity collection, the script channels and the id counter unchanged.     *)
C2_RemoveAbsent ==
    [][(/\ lastCmd'["cmd"] = "remove"
        /\ \A i \in Indices(cursors) : cursors[i].id # lastCmd'["id"])
       => (/\ events' = <<[event |-> "removed", id |-> lastCmd'["id"], ok |-> FALSE]>>
           /\ cursors' = cursors
           /\ gScriptPipes' = gScriptPipes
           /\ nextId' = nextId)]_vars

(* C3: when the removed acknowledgement of a remove of a Scripted entity is *)
(* emitted, no subprocess started for that entity is running and its script *)
(* channel is released.                                                     *)
C3_ScriptedTeardown ==
    [][(/\ lastCmd'["cmd"] = "remove"
        /\ \E e \in Range(events') : e.event = "removed"
        /\ \E i \in Indices(cursors) :
               cursors[i].id = lastCmd'["id"] /\ cursors[i].behavior = "Script")
       => (/\ lastCmd'["id"] \notin gScriptPipes'
           /\ \A p \in procs' : p.id # lastCmd'["id"])]_vars

\* the behavior code the protocol documents for each behavior name of a line
CodeOfLine(kv) ==
    IF ~Has(kv, "behavior") THEN 0
    ELSE CASE kv["behavior"] = "mirror" -> 0
           [] kv["behavior"] = "static" -> 1
           [] kv["behavior"] = "orbit" -> 2
           [] kv["behavior"] = "follow" -> 3
           [] kv["behavior"] = "script" -> 4

CodeOfBehavior ==
    [Mirror |-> 0, Static |-> 1, Orbit |-> 2, FollowLag |-> 3, Script |-> 4]

(* C9: a list that took its snapshot emitted one cursor event per entity of *)
(* the snapshot, in order, each with the entity's id and the code of its    *)
(* behavior, and then one listDone; an add that ran emitted added with the  *)
(* id of an entity now in the store whose behavior is the requested one.    *)
C9_ListEvents ==
    /\ (lastCmd["cmd"] = "list" /\ ~mtxHung)
       => /\ Len(events) = Len(cursors) + 1
          /\ \A i \in Indices(cursors) :
                 /\ events[i].event = "cursor"
                 /\ events[i].id = cursors[i].id
                 /\ events[i].behavior = CodeOfBehavior[cursors[i].behavior]
          /\ events[Len(events)] = [event |-> "listDone"]
    /\ (lastCmd["cmd"] = "add" /\ ~mtxHung)
       => /\ events # <<>>
          /\ LET e == events[Len(events)]
             IN /\ e.event = "added"
                /\ e.behavior = CodeOfLine(lastCmd)
                /\ \E i \in Indices(cursors) :
                       /\ cursors[i].id = e.id
                       /\ CodeOfBehavior[cursors[i].behavior] = e.behavior

C9_Witness ==
    /\ lastCmd["cmd"] = "list"
    /\ ~mtxHung
    /\ Len(events) = 3
    /\ \E i \in Indices(cursors) : cursors[i].behavior = "Orbit"

(* C12: once a clear command has completed, the entity collection is empty, *)
(* no script subprocess launched for an entity is running and no script     *)
(* channel is registered.                                                   *)
C12_ClearTearsDown ==
    (lastCmd["cmd"] = "clear" /\ ~mtxHung)
        => (cursors = <<>> /\ procs = {} /\ gScriptPipes = {})

(* C24: once a command in which the launch of a script subprocess failed   *)
(* has completed (it emitted scriptError with code launchFail for an id),   *)
(* an entity with that id is in the store, no entity with that id has its   *)
(* running-subprocess indicator set, and no script channel is registered    *)
(* for that id.                                                            *)
C24_LaunchFailReleases ==
    \A n \in DOMAIN events :
        (~mtxHung /\ events[n].event = "scriptError" /\ events[n].code = "launchFail")
            => /\ \E i \in Indices(cursors) : cursors[i].id = events[n].id
               /\ \A i \in Indices(cursors) :
                      cursors[i].id = events[n].id => ~cursors[i].scriptProcessRunning
               /\ events[n].id \notin gScriptPipes

\* ------------------------------------------------------------ protocol lines
\* lines of every command kind, with ids that are live, shared and never live,
\* sizes inside and outside the accepted range, and modern and unknown names
ProtoAddLines ==
    { [cmd |-> "add", id |-> 1, behavior |-> "orbit", size |-> 500],
      [cmd |-> "add", id |-> 1, size |-> 1],
      [cmd |-> "add", id |-> 2, behavior |-> "static", x |-> 5, y |-> 7, size |-> 20] }

ProtoSetLines ==
    { [cmd |-> "set", id |-> 1, size |-> 0],
      [cmd |-> "set", id |-> 1, radius |-> 70, color |-> Red, size |-> 450],
      [cmd |-> "set", id |-> 2, behavior |-> "follow", x |-> 3],
      [cmd |-> "set", id |-> 3, speed |-> 2] }

ProtoTweakLines ==
    { [cmd |-> "tweak", id |-> 1, size |-> 1000, radius |-> 90],
      [cmd |-> "tweak", id |-> 3, size |-> 5] }

ProtoRemoveLines == { [cmd |-> "remove", id |-> 1] }

OpLines ==
    { [op |-> "cursor/bogus", cmd |-> "clear"],
      [op |-> "cursor/bogus", cmd |-> "add", id |-> 2],
      [op |-> "cursor/update", id |-> 1, size |-> 30],
      [op |-> "help"] }

UnknownCmdLines == { [cmd |-> "frobnicate"], [cmd |-> "frobnicate", id |-> 1] }

ProtoAdd == \E kv \in ProtoAddLines : ClientCommand(kv)
ProtoSet == \E kv \in ProtoSetLines : ClientCommand(kv)
ProtoTweak == \E kv \in ProtoTweakLines : ClientCommand(kv)
ProtoRemove == \E kv \in ProtoRemoveLines : ClientCommand(kv)
CmdOp == \E kv \in OpLines : ClientCommand(kv)
CmdUnknown == \E kv \in UnknownCmdLines : ClientCommand(kv)

NextProto ==
    \/ ProtoAdd
    \/ ProtoSet
    \/ ProtoTweak
    \/ ProtoRemove
    \/ CmdClear
    \/ CmdOp
    \/ CmdUnknown

SpecProto == Init /\ [][NextProto]_vars

\* ------------------------------------------------------------ claims, SpecProto
(* C13: a command whose op is not a known name emits exactly one error      *)
(* event, runs no legacy action even when the line carries a cmd field, and *)
(* leaves the store unchanged; every known op has one legacy action, a name *)
(* the chain on cmd has a branch for.                                       *)
C13_UnknownOpRejected ==
    /\ [][UnknownOp(lastCmd')
             => (/\ events' = <<EvError(lastCmd'["op"])>>
                 /\ cursors' = cursors
                 /\ nextId' = nextId
                 /\ gScriptPipes' = gScriptPipes
                 /\ procs' = procs
                 /\ stateFile' = stateFile
                 /\ mtxHung' = mtxHung)]_vars
    /\ [](\A op \in DOMAIN OpToCmd : OpToCmd[op] \in LegacyCmds)

\* an unknown op with cmd = clear has been rejected while an entity is live
C13_Witness ==
    /\ lastCmd = [op |-> "cursor/bogus", cmd |-> "clear"]
    /\ events = <<EvError("cursor/bogus")>>
    /\ cursors # <<>>

\* the line carries no op and a cmd that no branch of the chain matches
UnknownCmd(kv) == ~Has(kv, "op") /\ Has(kv, "cmd") /\ kv["cmd"] \notin LegacyCmds

(* C14: a command whose legacy cmd matches no action emits an error event   *)
(* and changes no state.                                                    *)
C14_UnknownCmdError ==
    [][UnknownCmd(lastCmd')
          => (/\ \E i \in DOMAIN events' : events'[i].event = "error"
              /\ cursors' = cursors
              /\ nextId' = nextId
              /\ gScriptPipes' = gScriptPipes
              /\ procs' = procs)]_vars

\* the line is an add, remove, set, tweak or clear with the fields it needs
MutationLine(kv) ==
    /\ ~Has(kv, "op")
    /\ Has(kv, "cmd")
    /\ \/ kv["cmd"] \in {"add", "clear"}
       \/ kv["cmd"] \in {"remove", "set", "tweak"} /\ Has(kv, "id")

(* C15: every add, remove, set, tweak and clear that carries the fields it  *)
(* needs and is not stopped by the store lock emits exactly one event.      *)
C15_OneEvent ==
    [][(MutationLine(lastCmd') /\ ~mtxHung') => Len(events') = 1]_vars

\* the least and the greatest size the guard s > 2 && s < 400 accepts
SizeLow == 3
SizeHigh == 399

\* the nearest bound of the accepted range
Clamp(s) == IF s < SizeLow THEN SizeLow ELSE IF s > SizeHigh THEN SizeHigh ELSE s

(* C16: after an add, set or tweak that carries a size, the size of the     *)
(* entity it made or addressed is that value clamped to the accepted range. *)
C16_SizeClamped ==
    [][(/\ ~Has(lastCmd', "op")
        /\ Has(lastCmd', "size")
        /\ ~mtxHung')
       => /\ lastCmd'["cmd"] = "add"
             => cursors'[Len(cursors')].size = Clamp(lastCmd'["size"])
          /\ lastCmd'["cmd"] = "set"
             => \A i \in Indices(cursors') :
                    cursors'[i].id = lastCmd'["id"]
                        => cursors'[i].size = Clamp(lastCmd'["size"])
          /\ lastCmd'["cmd"] = "tweak"
             => \A i \in Indices(cursors') :
                    (/\ cursors'[i].id = lastCmd'["id"]
                     /\ \A j \in 1 .. (i - 1) : cursors'[j].id # lastCmd'["id"])
                        => cursors'[i].size = Clamp(lastCmd'["size"])]_vars

\* the line field that sets each field of a cursor (x and y set the target)
FieldOfLine ==
    [behavior |-> "behavior", offsetX |-> "offsetX", offsetY |-> "offsetY",
     radius |-> "radius", speed |-> "speed", lagMs |-> "lagMs", color |-> "color",
     size |-> "size"]

\* the cursors c and d agree on every field the line kv does not name, and on
\* the id, the position, the script path and the rest of the record
SameButNamed(c, d, kv) ==
    /\ \A f \in DOMAIN FieldOfLine : ~Has(kv, FieldOfLine[f]) => d[f] = c[f]
    /\ ~Has(kv, "x") => d.target[1] = c.target[1]
    /\ ~Has(kv, "y") => d.target[2] = c.target[2]
    /\ \A f \in (DOMAIN SwarmCursor) \ (DOMAIN FieldOfLine \cup {"target"}) :
           d[f] = c[f]

(* C17: a set command leaves every entity with another id unchanged and, in *)
(* an entity with the id, every field the command does not name, the id,    *)
(* the position and the script path; no entity is added or removed.         *)
C17_SetFrame ==
    [][(/\ ~Has(lastCmd', "op")
        /\ Field(lastCmd', "cmd", "") = "set")
       => /\ Len(cursors') = Len(cursors)
          /\ \A i \in Indices(cursors) :
                 IF cursors[i].id = Field(lastCmd', "id", -1)
                 THEN SameButNamed(cursors[i], cursors'[i], lastCmd')
                 ELSE cursors'[i] = cursors[i]]_vars

\* a set of the target x and the behavior of entity 2 has run beside entity 1
C17_Witness ==
    /\ lastCmd = [cmd |-> "set", id |-> 2, behavior |-> "follow", x |-> 3]
    /\ events = <<EvUpdated(2, "FollowLag")>>
    /\ \E i, j \in Indices(cursors) :
           /\ cursors[i].id = 1
           /\ cursors[j].id = 2
           /\ cursors[j].behavior = "FollowLag"
           /\ cursors[j].target = <<3, 7>>
           /\ cursors[j].pos = <<5, 7>>

\* ------------------------------------------------------------ mouse commands
\* GetCursorPosForId: the position of the first cursor with the id, (0,0) and
\* ok = false when there is none
GetCursorPosForId(st, id) ==
    IF removeCursorFound(st, id)
    THEN LET i == CHOOSE j \in Indices(st.cursors) :
                      /\ st.cursors[j].id = id
                      /\ \A k \in 1 .. (j - 1) : st.cursors[k].id # id
         IN [ok |-> TRUE, p |-> st.cursors[i].pos]
    ELSE [ok |-> FALSE, p |-> <<0, 0>>]

\* the pointer steps: SetCursorPos, SendInput of a button flag, sleep_for
Move(p) == [op |-> "move", to |-> p]
Button(action, button) == [op |-> action, button |-> button]
Wait == [op |-> "wait", ms |-> 5]

\* PerformMouseAction: SetCursorPos(p), then SendInput of the down or up flag
PerformMouseAction(p, action, button) == <<Move(p), Button(action, button)>>

\* dragId's target: tx, ty absolute, else dx, dy relative, else the position
DragTarget(p, kv) ==
    IF Has(kv, "tx") /\ Has(kv, "ty") THEN <<kv["tx"], kv["ty"]>>
    ELSE IF Has(kv, "dx") /\ Has(kv, "dy") THEN <<p[1] + kv["dx"], p[2] + kv["dy"]>>
    ELSE p

MouseCmds == {"click", "clickId", "downId", "upId", "dragId"}

\* the branch of handleCommand for the mouse commands: the pointer steps it makes
MouseSteps(st, kv) ==
    LET cmd == Field(kv, "cmd", "")
        r == GetCursorPosForId(st, Field(kv, "id", 0))
        p == r.p
        button == Field(kv, "button", 0)
    IN IF cmd \notin MouseCmds \/ ~r.ok THEN <<>>
       ELSE CASE cmd \in {"click", "clickId"} ->
                     PerformMouseAction(p, "down", button)
                         \o PerformMouseAction(p, "up", button)
              [] cmd = "downId" -> PerformMouseAction(p, "down", button)
              [] cmd = "upId" -> PerformMouseAction(p, "up", button)
              [] cmd = "dragId" ->
                     PerformMouseAction(p, "down", button)
                         \o <<Move(DragTarget(p, kv)), Wait>>
                         \o PerformMouseAction(DragTarget(p, kv), "up", button)

\* where the last SetCursorPos of the steps leaves the system pointer
PointerAfter(steps, sp) ==
    LET moves == SelectSeq(steps, LAMBDA s : s.op = "move")
    IN IF moves = <<>> THEN sp ELSE moves[Len(moves)].to

MouseLines ==
    { [cmd |-> "dragId", id |-> 2, tx |-> 1, ty |-> 2],
      [cmd |-> "dragId", id |-> 2, dx |-> 1, dy |-> 1, button |-> 1],
      [cmd |-> "dragId", id |-> 3, tx |-> 1, ty |-> 2],
      [cmd |-> "clickId", id |-> 2],
      [cmd |-> "downId", id |-> 1, button |-> 2],
      [cmd |-> "upId", id |-> 1, button |-> 2] }

\* one mouse command arrives and handleCommand runs on it to its end
MouseCommand(kv) ==
    /\ ~mtxHung
    /\ \E w \in {handleCommand(World, kv)} : Bounded(w) /\ Commit(w, kv)
    /\ pointerOps' = MouseSteps(World, kv)
    /\ systemPos' = PointerAfter(MouseSteps(World, kv), systemPos)
    /\ UNCHANGED <<tickDt, tickCount, elapsedMs, otherThanMouse>>

CmdMouse == \E kv \in MouseLines : MouseCommand(kv)

NextMouse == ProtoAdd \/ CmdClear \/ CmdMouse

SpecMouse == Init /\ [][NextMouse]_vars

\* ------------------------------------------------------------ claims, SpecMouse
(* C18: a drag of a live entity makes these pointer steps, in this order:   *)
(* move to the entity's position, press, wait, move to the target, release. *)
C18_DragOrder ==
    [][(/\ lastCmd'["cmd"] = "dragId"
        /\ GetCursorPosForId(World, lastCmd'["id"]).ok)
       => LET p == GetCursorPosForId(World, lastCmd'["id"]).p
              b == Field(lastCmd', "button", 0)
          IN pointerOps' = <<Move(p), Button("down", b), Wait,
                             Move(DragTarget(p, lastCmd')), Button("up", b)>>]_vars

\* ------------------------------------------------------------ watchdog
\* (src/src/watchdog.cpp)
MaxRetries == 3
MaxStaleRun == 5

\* Config::staleThresholdMs
staleThresholdMs == 5000

\* the clock reading of a poll
NowMs == 10000

\* the values --retries can give cfg.staleRetries (atoi of the argument)
RetryArgs == -1 .. MaxRetries

\* if(cfg.staleRetries < 1) cfg.staleRetries = 1
ClampRetries(r) == IF r < 1 THEN 1 ELSE r

\* what readHeartbeatTs can return at a poll: -1 for a missing or unreadable
\* record, else the timestamp written in it
HeartbeatTs ==
    {-1, NowMs - staleThresholdMs - 1, NowMs - staleThresholdMs, NowMs, NowMs + 1}

\* bool stale = (ts < 0) || (nowMs - ts > cfg.staleThresholdMs)
IsStale(ts, nowMs) == ts < 0 \/ nowMs - ts > staleThresholdMs

\* a limit test that waits one stale poll more
StaleLimitReachedLate(count, retries) == count > retries

\* if(staleCount >= cfg.staleRetries)
StaleLimitReached(count, retries) == count >= retries

\* a recovery that leaves the counter as it is
HeartbeatRecoveredKeeps(count) == count

\* else if(staleCount>0) staleCount = 0
HeartbeatRecovered(count) == IF count > 0 THEN 0 ELSE count

\* the watchdog's locals as one value, with the calls made so far in a poll
WdLocals ==
    [hProcess |-> hProcess, childAlive |-> childAlive, staleCount |-> staleCount,
     ops |-> <<>>]

closeHandles(w) == [w EXCEPT !.hProcess = FALSE]

\* launch(): nothing if a handle is held; else CreateProcessA, which may fail
launch(w, ok) ==
    IF w.hProcess THEN w
    ELSE [w EXCEPT !.hProcess = ok, !.childAlive = ok, !.ops = Append(@, "launch")]

\* TerminateProcess(pi.hProcess, 0); WaitForSingleObject(pi.hProcess, 1500)
terminate(w) == [w EXCEPT !.childAlive = FALSE, !.ops = Append(@, "terminate")]

\* an exit branch that leaves the stale counter as it is
ExitBranchKeepsCount(w, ok) ==
    IF ~w.hProcess \/ ~w.childAlive
    THEN launch(IF w.hProcess THEN closeHandles(w) ELSE w, ok)
    ELSE w

\* the exit / absent branch of a poll
ExitBranch(w, ok) ==
    IF ~w.hProcess \/ ~w.childAlive
    THEN [launch(IF w.hProcess THEN closeHandles(w) ELSE w, ok)
              EXCEPT !.staleCount = 0]
    ELSE w

\* the heartbeat branch of a poll
StaleBranch(w, stale, ok) ==
    IF stale
    THEN LET w1 == [w EXCEPT !.staleCount = @ + 1]
         IN IF StaleLimitReached(w1.staleCount, staleRetries)
            THEN [launch(IF w1.hProcess THEN closeHandles(terminate(w1)) ELSE w1, ok)
                      EXCEPT !.staleCount = 0]
            ELSE w1
    ELSE [w EXCEPT !.staleCount = HeartbeatRecovered(@)]

\* one pass of the poll loop with no stop file: the exit branch, then the
\* heartbeat branch; ts is the record read, ok1 and ok2 what CreateProcessA
\* returns in the first and the second branch
WdPollWith(ts, ok1, ok2) ==
    LET stale == IsStale(ts, NowMs)
        alive == hProcess /\ childAlive
        w == StaleBranch(ExitBranch(WdLocals, ok1), stale, ok2)
        fresh == ~pollStale    \* the last poll ended its run
    IN /\ ~wdDone /\ ~stopFile
       /\ stale => (IF fresh THEN 0 ELSE staleRun) < MaxStaleRun
       /\ hProcess' = w.hProcess
       /\ childAlive' = w.childAlive
       /\ staleCount' = w.staleCount
       /\ pollStale' = stale
       /\ pollAlive' = alive
       /\ pollOps' = w.ops
       /\ staleRun' = (IF fresh THEN 0 ELSE staleRun) + (IF stale THEN 1 ELSE 0)
       /\ runAlive' = ((fresh \/ runAlive) /\ alive)
       /\ runOps' = (IF fresh THEN <<>> ELSE runOps) \o w.ops
       /\ UNCHANGED <<staleRetries, stopFile, wdDone>>

WdPoll ==
    \E ts \in HeartbeatTs, ok1, ok2 \in BOOLEAN :
        WdPollWith(ts, ok1, ok2) /\ UNCHANGED otherThanWd

\* a stop that returns with the process handle still open
WdStopKeepsHandles ==
    /\ ~wdDone /\ stopFile
    /\ wdDone' = TRUE
    /\ UNCHANGED <<hProcess, childAlive, staleCount, staleRetries, stopFile, pollStale,
                   pollAlive, pollOps, staleRun, runAlive, runOps, otherThanWd>>

\* the stop file exists at the top of the loop: break, closeHandles, return
WdStop ==
    /\ ~wdDone /\ stopFile
    /\ wdDone' = TRUE
    /\ hProcess' = FALSE
    /\ UNCHANGED <<childAlive, staleCount, staleRetries, stopFile, pollStale, pollAlive,
                   pollOps, staleRun, runAlive, runOps, otherThanWd>>

\* somebody creates the stop file
StopFileAppears ==
    /\ ~stopFile
    /\ stopFile' = TRUE
    /\ UNCHANGED <<hProcess, childAlive, staleCount, staleRetries, wdDone, pollStale,
                   pollAlive, pollOps, staleRun, runAlive, runOps, otherThanWd>>

\* the worker process ends by itself between two polls
WorkerExits ==
    /\ childAlive /\ ~wdDone
    /\ childAlive' = FALSE
    /\ UNCHANGED <<hProcess, staleCount, staleRetries, stopFile, wdDone, pollStale,
                   pollAlive, pollOps, staleRun, runAlive, runOps, otherThanWd>>

\* main up to the loop: the arguments are parsed and the retry count clamped
InitWatchdog ==
    /\ StoreInit /\ ahkOk = TRUE /\ relockBuild = "recursive"
    /\ TickIdle
    /\ PoolIdle
    /\ LinesIdle
    /\ MouseIdle
    /\ AttachIdle
    /\ ExtIdle
    /\ hProcess = FALSE
    /\ childAlive = FALSE
    /\ staleCount = 0
    /\ staleRetries \in { ClampRetries(r) : r \in RetryArgs }
    /\ stopFile \in BOOLEAN
    /\ wdDone = FALSE
    /\ pollStale = FALSE
    /\ pollAlive = FALSE
    /\ pollOps = <<>>
    /\ staleRun = 0
    /\ runAlive = TRUE
    /\ runOps = <<>>

NextWatchdog ==
    \/ WdPoll
    \/ WdStop
    \/ StopFileAppears
    \/ WorkerExits

SpecWatchdog == InitWatchdog /\ [][NextWatchdog]_vars

\* the watchdog's main thread is scheduled: the sleep at the end of a poll is
\* bounded and so is every call of a poll, so the loop reaches its top again
SpecWatchdogFair == SpecWatchdog /\ WF_vars(WdStop) /\ WF_vars(WdPoll)

\* ------------------------------------------------------------ claims, SpecWatchdog
Restart == <<"terminate", "launch">>

(* C6: when the record has been stale for exactly staleRetries consecutive  *)
(* polls, at the start of each of which the worker was alive, the watchdog   *)
(* has made exactly one TerminateProcess call followed by one launch call,  *)
(* both in the last of these polls, and the stale counter is zero.          *)
C6_OneRestart ==
    (pollStale /\ runAlive /\ staleRun = staleRetries)
        => (runOps = Restart /\ pollOps = Restart /\ staleCount = 0)

C6_Witness ==
    /\ pollStale /\ runAlive /\ staleRun = staleRetries
    /\ staleRetries = 2
    /\ pollOps = Restart
    /\ hProcess /\ childAlive

(* C7: a poll terminates the worker only if it found the record stale and   *)
(* it is at least the staleRetries-th stale poll in a row; and after a run  *)
(* of fewer than staleRetries stale polls ended by a fresh poll, with the   *)
(* worker alive at each of them, no TerminateProcess and no launch call was *)
(* made in the run or in the fresh poll, and the stale counter is zero.     *)
C7_NoEarlyRestart ==
    /\ (\E i \in DOMAIN pollOps : pollOps[i] = "terminate")
           => (pollStale /\ staleRun >= staleRetries)
    /\ (~pollStale /\ pollAlive /\ runAlive /\ staleRun < staleRetries)
           => (runOps = <<>> /\ pollOps = <<>> /\ staleCount = 0)

C7_Witness ==
    /\ ~pollStale /\ pollAlive /\ runAlive
    /\ staleRun = 2 /\ staleRetries = 3
    /\ staleCount = 0
    /\ hProcess /\ childAlive

(* C25: a poll that starts with the process handle absent or with the       *)
(* worker exited calls launch before anything else, ends with the handle    *)
(* either absent or that of a running worker (the old handle is released),  *)
(* and counts the stale polls from zero again: the counter ends at one if   *)
(* this poll found the record stale and the limit is above one, else at     *)
(* zero.  A poll that follows a failed launch starts with the handle absent *)
(* and so launches again.                                                   *)
C25_RestartOnExit ==
    [][(~wdDone /\ ~stopFile /\ ~(hProcess /\ childAlive) /\ stopFile' = stopFile)
          => /\ pollOps' # <<>> /\ pollOps'[1] = "launch"
             /\ hProcess' = childAlive'
             /\ staleCount' = (IF pollStale' /\ staleRetries > 1 THEN 1 ELSE 0)]_vars

\* the worker exited in a run of stale polls: the poll relaunched it and the
\* counter restarted
C25_Witness ==
    /\ ~pollAlive /\ pollOps = <<"launch">>
    /\ hProcess /\ childAlive
    /\ pollStale /\ staleRun >= 2 /\ staleCount = 1

(* C26: while the stop file exists and the watchdog has not left its loop,  *)
(* no step makes a launch or TerminateProcess call or changes the process   *)
(* handle except the step that leaves the loop, and that step leaves no     *)
(* handle open; if the stop file exists at startup no launch call is ever   *)
(* made and no worker ever runs; and once the stop file exists the watchdog *)
(* eventually exits.                                                        *)
C26_StopFile ==
    /\ [][(stopFile /\ ~wdDone)
             => /\ pollOps' = pollOps /\ runOps' = runOps
                /\ ~(childAlive' /\ ~childAlive)
                /\ hProcess' # hProcess => wdDone'
                /\ wdDone' => ~hProcess']_vars
    /\ (stopFile => [](pollOps = <<>> /\ runOps = <<>> /\ ~childAlive /\ ~hProcess))
    /\ (stopFile ~> wdDone)

\* the watchdog has left its loop at a stop file that appeared while a worker
\* it had launched was running: the handle is released, the worker runs on
C26_Witness ==
    /\ wdDone /\ stopFile
    /\ ~hProcess /\ childAlive
    /\ pollOps = <<"launch">>

(* C37: in one pass of the poll loop the watchdog calls CreateProcessA at   *)
(* most once, and does not call TerminateProcess after it has launched the  *)
(* worker in that pass.                                                     *)
C37_NoLaunchThenTerminate ==
    /\ Cardinality({i \in DOMAIN pollOps : pollOps[i] = "launch"}) <= 1
    /\ \A i, j \in DOMAIN pollOps :
           (pollOps[i] = "launch" /\ pollOps[j] = "terminate") => j < i

\* ------------------------------------------------------------ tick
\* (SwarmManager::updateAll, called by UpdateThread with dt = tickDt / 1000 s)
MaxCoord == 2
MaxTicks == 3

\* (LONG) of the quotient a / b of two integers, b > 0: truncation toward zero
TruncDiv(a, b) == IF a >= 0 THEN a \div b ELSE -((-a) \div b)

\* one coordinate of the FollowLag case: alpha = dt*1000 / max(lagMs, 1),
\* at most 1; (LONG)(p + (r - p) * alpha), computed exactly
FollowLagStep(p, r, dtMs, lagMs) ==
    LET lag == IF lagMs > 1 THEN lagMs ELSE 1
        num == IF dtMs > lag THEN lag ELSE dtMs
    IN TruncDiv(p * lag + (r - p) * num, lag)

\* cos and sin of an angle of x/1000 rad, in millionths, by their Taylor
\* polynomials 1 - x^2/2 + x^4/24 and x - x^3/6; the error is below three
\* millionths for |x| <= 200, which covers every angle the ticks reach
CosMicro(x) == 1000000 - (x * x) \div 2 + (x * x * x * x) \div 24000000
SinMicro(x) == 1000 * x - TruncDiv(x * x * x, 6000)

\* c.angle += c.speed * dt, the angle in 1/1000 rad and dt in milliseconds
OrbitAngleFixedStep(angle, speed, dtMs) == angle + speed * 16
OrbitAngle(angle, speed, dtMs) == angle + speed * dtMs

\* (LONG)(sp.x + cos(angle) * radius), (LONG)(sp.y + sin(angle) * radius)
OrbitPos(angle, radius, sp) ==
    <<TruncDiv(sp[1] * 1000000 + CosMicro(angle) * radius, 1000000),
      TruncDiv(sp[2] * 1000000 + SinMicro(angle) * radius, 1000000)>>

\* the switch with a Script cursor going through the Static case
updateCursorScriptAsStatic(c, dtMs, sp) ==
    CASE c.behavior = "Mirror" ->
             [c EXCEPT !.pos = <<sp[1] + c.offsetX, sp[2] + c.offsetY>>]
      [] c.behavior \in {"Static", "Script"} -> [c EXCEPT !.pos = c.target]
      [] c.behavior = "Orbit" ->
             LET a == OrbitAngle(c.angle, c.speed, dtMs)
             IN [c EXCEPT !.angle = a, !.pos = OrbitPos(a, c.radius, sp)]
      [] c.behavior = "FollowLag" ->
             LET p == IF c.initialized THEN c.pos ELSE sp
             IN [c EXCEPT !.initialized = TRUE,
                          !.pos = <<FollowLagStep(p[1], sp[1], dtMs, c.lagMs),
                                    FollowLagStep(p[2], sp[2], dtMs, c.lagMs)>>]

\* the switch of updateAll on one cursor; a Script cursor has no case
updateCursor(c, dtMs, sp) ==
    CASE c.behavior = "Mirror" ->
             [c EXCEPT !.pos = <<sp[1] + c.offsetX, sp[2] + c.offsetY>>]
      [] c.behavior = "Static" -> [c EXCEPT !.pos = c.target]
      [] c.behavior = "Orbit" ->
             LET a == OrbitAngle(c.angle, c.speed, dtMs)
             IN [c EXCEPT !.angle = a, !.pos = OrbitPos(a, c.radius, sp)]
      [] c.behavior = "FollowLag" ->
             LET p == IF c.initialized THEN c.pos ELSE sp
             IN [c EXCEPT !.initialized = TRUE,
                          !.pos = <<FollowLagStep(p[1], sp[1], dtMs, c.lagMs),
                                    FollowLagStep(p[2], sp[2], dtMs, c.lagMs)>>]
      [] OTHER -> c

updateAll(cs, dtMs, sp) == [i \in DOMAIN cs |-> updateCursor(cs[i], dtMs, sp)]

Coords == -MaxCoord .. MaxCoord
LagValues == {0, 2, 120}
DtValues == {1, 16}
OrbitSpeeds == {1, 2}
OrbitRadii == {80}

\* one pass of UpdateThread's loop: dt is the time measured since the last pass
Tick ==
    /\ ~mtxHung
    /\ tickCount < MaxTicks
    /\ \E dt \in DtValues :
           /\ cursors' = updateAll(cursors, dt, systemPos)
           /\ tickDt' = dt
           /\ elapsedMs' = elapsedMs + dt
    /\ tickCount' = tickCount + 1
    /\ UNCHANGED <<nextId, gScriptPipes, procs, ahkOk, events, lastCmd, stateFile,
                   mtxHung, relockBuild, roundTrip, systemPos, otherThanTick>>

\* the user moves the system pointer (while ticks are still to come)
MouseMove ==
    \E x, y \in Coords :
        /\ tickCount < MaxTicks
        /\ systemPos # <<x, y>>
        /\ systemPos' = <<x, y>>
        /\ UNCHANGED <<storeVars, tickDt, tickCount, elapsedMs, otherThanTick>>

\* the lines that add the cursor the ticks move
TickAddLines ==
    {[cmd |-> "add", behavior |-> "follow", lagMs |-> lag] : lag \in LagValues}
        \cup {[cmd |-> "add", behavior |-> "orbit", speed |-> s, radius |-> r] :
                  s \in OrbitSpeeds, r \in OrbitRadii}

\* the store after a clear and one add of a follow or orbit cursor, before the
\* first tick
InitTick ==
    /\ \E kv \in TickAddLines :
           cursors = <<[AddBase(kv) EXCEPT !.id = SeedNextId]>>
    /\ nextId = SeedNextId + 1
    /\ gScriptPipes = {}
    /\ procs = {}
    /\ events = <<>>
    /\ lastCmd = [cmd |-> "(none)"]
    /\ stateFile = NoFile
    /\ mtxHung = FALSE
    /\ roundTrip = [phase |-> "none", saved |-> <<>>]
    /\ ahkOk = TRUE /\ relockBuild = "recursive"
    /\ systemPos \in Coords \X Coords
    /\ tickDt \in DtValues
    /\ tickCount = 0
    /\ elapsedMs = 0
    /\ WdIdle
    /\ PoolIdle
    /\ LinesIdle
    /\ MouseIdle
    /\ AttachIdle
    /\ ExtIdle

NextTick == Tick \/ MouseMove

SpecTick == InitTick /\ [][NextTick]_vars

\* ------------------------------------------------------------ claims, SpecTick
\* the squared distance of the i-th cursor of cs to the point sp
Dist2(cs, i, sp) ==
    (cs[i].pos[1] - sp[1]) * (cs[i].pos[1] - sp[1])
        + (cs[i].pos[2] - sp[2]) * (cs[i].pos[2] - sp[2])

(* C10: at every tick of a run with a fixed dt that finds an initialized FollowLag entity at a       *)
(* position different from the reference point, the distance of its         *)
(* position to the reference point strictly decreases.                      *)
C10_FollowLagConverges ==
    [][\A i \in DOMAIN cursors :
          (/\ tickCount' = tickCount + 1
           /\ tickDt' = tickDt
           /\ cursors[i].behavior = "FollowLag"
           /\ cursors[i].initialized
           /\ cursors[i].pos # systemPos)
          => Dist2(cursors', i, systemPos) < Dist2(cursors, i, systemPos)]_vars

InitPersist ==
    /\ StoreInit
    /\ ahkOk \in BOOLEAN
    /\ relockBuild = "recursive"
    /\ TickIdle
    /\ WdIdle
    /\ PoolIdle
    /\ LinesIdle
    /\ MouseIdle
    /\ AttachIdle
    /\ ExtIdle

NextPersist ==
    \/ CmdAdd
    \/ CmdSet
    \/ CmdTweak
    \/ CmdSave
    \/ CmdClear
    \/ CmdLoad

SpecPersist == InitPersist /\ [][NextPersist]_vars

\* ------------------------------------------------------------ claims, SpecPersist
\* the entities of a collection, by the fields a save is to keep
Entities(cs) ==
    { [id |-> cs[i].id, behavior |-> cs[i].behavior, offsetX |-> cs[i].offsetX,
       offsetY |-> cs[i].offsetY, radius |-> cs[i].radius, speed |-> cs[i].speed,
       lagMs |-> cs[i].lagMs, target |-> cs[i].target, size |-> cs[i].size,
       color |-> cs[i].color, scriptPath |-> cs[i].scriptPath] : i \in DOMAIN cs }

(* C8: after a save directly followed by a clear and a load, the collection *)
(* holds the same entities as at the save, with the same ids, behaviors,    *)
(* offsets, radius, speed, lagMs, static target, size, color and script     *)
(* path.                                                                    *)
C8_RoundTrip ==
    roundTrip.phase = "loaded" => Entities(cursors) = Entities(roundTrip.saved)

\* ------------------------------------------------------------ listener pool
\* (InboundListenerPool, InboundListenerWorker, InboundClientHandler)
\* kInboundListenerCount workers wait in ConnectNamedPipe on instances of one
\* pipe name; which instance a client gets is the system's choice and the
\* workers run the same code, so the c-th client is given the c-th worker.
\* Every client writes an add line and a list line and closes its end.
PoolAddLine == [cmd |-> "add", behavior |-> "static", x |-> 5, y |-> 7]
PoolListLine == [cmd |-> "list"]

\* the number of events named name in evs
CountEv(evs, name) == Cardinality({ i \in DOMAIN evs : evs[i].event = name })

\* what sendOut puts in the pipe of the n events handed to it
Written(n) == IF gOutPipeReady THEN n ELSE 0

\* a handler that drops what is left in its buffer when the client is gone
DropAtEof(buf) == FALSE

\* if(!buffer.empty()) handleCommand(buffer) after the read loop
FlushAtEof(buf) == buf # <<>>

\* handleCommand(buffer) in the handler of worker c, with its events counted
PoolDispatch(c, kv) ==
    \E w \in {handleCommand(World, kv)} :
       /\ Commit(w, kv)
       /\ gotAdded' = [gotAdded EXCEPT ![c] = @ + CountEv(w.events, "added")]
       /\ gotListDone' = [gotListDone EXCEPT ![c] = @ + CountEv(w.events, "listDone")]
       /\ outAdded' = outAdded + Written(CountEv(w.events, "added"))
       /\ outListDone' = outListDone + Written(CountEv(w.events, "listDone"))

\* ConnectNamedPipe returns in worker c: a client has connected and written
ClientConnects(c) ==
    /\ conn[c] = "listening"
    /\ conn' = [conn EXCEPT ![c] = "connected"]
    /\ UNCHANGED <<storeVars, trailingNewline, gOutPipeReady, gotAdded, gotListDone,
                   outAdded, outListDone, otherThanPool>>

\* the handler reads up to the first newline and dispatches the add line
HandlerAdd(c) ==
    /\ conn[c] = "connected"
    /\ conn' = [conn EXCEPT ![c] = "added"]
    /\ PoolDispatch(c, PoolAddLine)
    /\ UNCHANGED <<trailingNewline, gOutPipeReady, otherThanPool>>

\* the handler goes on to the list line, dispatches it at its newline or, if
\* the client sent none, after the read loop, and closes the instance
HandlerList(c) ==
    /\ conn[c] = "added"
    /\ conn' = [conn EXCEPT ![c] = "closed"]
    /\ IF trailingNewline \/ FlushAtEof(<<PoolListLine>>)
       THEN PoolDispatch(c, PoolListLine)
       ELSE UNCHANGED <<storeVars, gotAdded, gotListDone, outAdded, outListDone>>
    /\ UNCHANGED <<trailingNewline, gOutPipeReady, otherThanPool>>

\* the overlay started, a subscriber attached to the outbound pipe, the
\* workers listening
InitPool ==
    /\ StoreInit
    /\ ahkOk = TRUE /\ relockBuild = "recursive"
    /\ conn = [c \in Workers |-> "listening"]
    /\ trailingNewline \in BOOLEAN
    /\ gOutPipeReady = TRUE
    /\ gotAdded = [c \in Workers |-> 0]
    /\ gotListDone = [c \in Workers |-> 0]
    /\ outAdded = 0
    /\ outListDone = 0
    /\ TickIdle
    /\ WdIdle
    /\ LinesIdle
    /\ MouseIdle
    /\ AttachIdle
    /\ ExtIdle

NextPool ==
    \/ \E c \in Workers : ClientConnects(c)
    \/ \E c \in Workers : HandlerAdd(c)
    \/ \E c \in Workers : HandlerList(c)

SpecPool == InitPool /\ [][NextPool]_vars

\* ------------------------------------------------------------ claims, SpecPool
RECURSIVE SumTo(_, _)
SumTo(f, n) == IF n = 0 THEN 0 ELSE f[n] + SumTo(f, n - 1)

Served(c) == conn[c] \in {"added", "closed"}

(* C4: with the kInboundListenerCount clients served at the same time and a *)
(* subscriber attached, a client whose add has been dispatched has got       *)
(* exactly one added event and its entity is in the store, a client whose    *)
(* list has been dispatched has got exactly one listDone event, no client    *)
(* has got an event for a line not yet dispatched, and every such event has  *)
(* been written to the outbound pipe.                                        *)
C4_NoLostCommand ==
    /\ \A c \in Workers :
           /\ gotAdded[c] = (IF Served(c) THEN 1 ELSE 0)
           /\ gotListDone[c] = (IF conn[c] = "closed" THEN 1 ELSE 0)
    /\ Len(cursors) = Cardinality({ c \in Workers : Served(c) })
    /\ outAdded = SumTo(gotAdded, kInboundListenerCount)
    /\ outListDone = SumTo(gotListDone, kInboundListenerCount)

C4_Witness ==
    /\ \A c \in Workers : conn[c] = "closed"
    /\ Len(cursors) = kInboundListenerCount
    /\ outAdded = kInboundListenerCount
    /\ outListDone = kInboundListenerCount
    /\ ~trailingNewline

\* ------------------------------------------------------------ lines and bytes
\* (InboundClientHandler, sendOut at the level of the bytes)
\* A byte of a command line is modelled by a token: an opening or closing
\* brace, a newline, or one "key":"value" pair.  A byte of an event line is
\* a brace, a newline, or the body of the event.

\* sizeof(chunk) and the line limit of InboundClientHandler
kChunk == 256
kMaxLine == 4096

NL == "\n"

\* the key and the value of a pair token
PairOf ==
    ("cmd:list" :> <<"cmd", "list">>) @@ ("cmd:clear" :> <<"cmd", "clear">>)

\* the bytes each client writes to its connection; the second one does not
\* end its last line
ClientScripts ==
    << <<"{", "cmd:list", "}", NL, "{", "cmd:clear", "}", NL>>,
       <<"{", "cmd:clear", "}", NL, "{", "cmd:list", "}">> >>

Conns == DOMAIN ClientScripts

\* the loop of parseSimpleJson over the pairs of a line, from position i
RECURSIVE parsePairs(_, _, _)
parsePairs(line, i, out) ==
    IF i > Len(line) THEN out
    ELSE IF line[i] = "}" THEN out
    ELSE IF line[i] \notin DOMAIN PairOf THEN out
    ELSE parsePairs(line, i + 1, (PairOf[line[i]][1] :> PairOf[line[i]][2]) @@ out)

parseSimpleJson(line) ==
    IF line = <<>> \/ line[1] # "{" THEN <<>> ELSE parsePairs(line, 2, <<>>)

NoEv == [event |-> "-"]

\* std::string data = line; data.push_back('\n')
EventBytes(e) ==
    << [ch |-> "{", ev |-> NoEv], [ch |-> "body", ev |-> e], [ch |-> "}", ev |-> NoEv],
       [ch |-> NL, ev |-> NoEv] >>

\* a lock that lets everybody in
LockFreeAlways(owner) == TRUE

\* std::lock_guard<std::mutex> lock(gOutPipeMtx) can be passed
LockFree(owner) == owner = 0

\* handleCommand is a plain call in the handler's own thread: the loop over the
\* bytes goes on only when the call, with every sendOut in it, has returned
handleCommandReturnedAlways(c) == TRUE
handleCommandReturned(c) == pending[c] = <<>>

\* buffer.push_back(c) under the guard buffer.size() < 4096
pushBackUnlimited(buf, ch) == Append(buf, ch)
pushBack(buf, ch) == IF Len(buf) < kMaxLine THEN Append(buf, ch) ELSE buf

\* the client writes the next byte of its script
ClientWrite(c) ==
    /\ toSend[c] # <<>> /\ ~closed[c]
    /\ inPipe' = [inPipe EXCEPT ![c] = Append(@, Head(toSend[c]))]
    /\ toSend' = [toSend EXCEPT ![c] = Tail(@)]
    /\ UNCHANGED <<closed, chunk, buffer, handlerDone, pending, sending, wr, gOutPipeMtx,
                   dispatched, emitted, outBytes, storeVars, otherThanLines>>

\* the client has written everything and closes its handle
ClientClose(c) ==
    /\ toSend[c] = <<>> /\ ~closed[c]
    /\ closed' = [closed EXCEPT ![c] = TRUE]
    /\ UNCHANGED <<toSend, inPipe, chunk, buffer, handlerDone, pending, sending, wr,
                   gOutPipeMtx, dispatched, emitted, outBytes, storeVars, otherThanLines>>

\* ReadFile(hPipe, chunk, sizeof(chunk), &read) returns what is in the pipe
HandlerRead(c) ==
    /\ ~handlerDone[c] /\ chunk[c] = <<>> /\ handleCommandReturned(c)
    /\ inPipe[c] # <<>>
    /\ LET n == IF Len(inPipe[c]) < kChunk THEN Len(inPipe[c]) ELSE kChunk
       IN /\ chunk' = [chunk EXCEPT ![c] = SubSeq(inPipe[c], 1, n)]
          /\ inPipe' = [inPipe EXCEPT ![c] = SubSeq(@, n + 1, Len(@))]
    /\ UNCHANGED <<toSend, closed, buffer, handlerDone, pending, sending, wr, gOutPipeMtx,
                   dispatched, emitted, outBytes, storeVars, otherThanLines>>

\* handleCommand(buffer) in handler c: the line is parsed and dispatched; the
\* events of the dispatch are then sent one by one
LineDispatch(c, line) ==
    \E w \in {handleCommand(World, parseSimpleJson(line))} :
        /\ Commit(w, parseSimpleJson(line))
        /\ dispatched' = [dispatched EXCEPT ![c] = Append(@, line)]
        /\ emitted' = [emitted EXCEPT ![c] = @ \o w.events]
        /\ pending' = [pending EXCEPT ![c] = w.events]

\* one pass of the for loop over the bytes of the chunk
HandlerByte(c) ==
    /\ chunk[c] # <<>> /\ handleCommandReturned(c)
    /\ chunk' = [chunk EXCEPT ![c] = Tail(@)]
    /\ IF Head(chunk[c]) = NL
       THEN /\ buffer' = [buffer EXCEPT ![c] = <<>>]
            /\ IF buffer[c] # <<>>
               THEN LineDispatch(c, buffer[c])
               ELSE UNCHANGED <<dispatched, emitted, pending, storeVars>>
       ELSE /\ buffer' = [buffer EXCEPT ![c] = pushBack(@, Head(chunk[c]))]
            /\ UNCHANGED <<dispatched, emitted, pending, storeVars>>
    /\ UNCHANGED <<toSend, inPipe, closed, handlerDone, sending, wr, gOutPipeMtx,
                   outBytes, otherThanLines>>

\* ReadFile fails on the closed and drained pipe: the loop ends and what is
\* left in the buffer is dispatched
HandlerEof(c) ==
    /\ ~handlerDone[c] /\ closed[c]
    /\ inPipe[c] = <<>> /\ chunk[c] = <<>> /\ handleCommandReturned(c)
    /\ handlerDone' = [handlerDone EXCEPT ![c] = TRUE]
    /\ buffer' = [buffer EXCEPT ![c] = <<>>]
    /\ IF FlushAtEof(buffer[c])
       THEN LineDispatch(c, buffer[c])
       ELSE UNCHANGED <<dispatched, emitted, pending, storeVars>>
    /\ UNCHANGED <<toSend, inPipe, closed, chunk, sending, wr, gOutPipeMtx, outBytes,
                   otherThanLines>>

\* sendOut: the lock_guard is passed and the line gets its newline
SendLock(c) ==
    /\ pending[c] # <<>> /\ ~sending[c]
    /\ LockFree(gOutPipeMtx)
    /\ gOutPipeMtx' = c
    /\ sending' = [sending EXCEPT ![c] = TRUE]
    /\ wr' = [wr EXCEPT ![c] = IF gOutPipeReady THEN EventBytes(Head(pending[c])) ELSE <<>>]
    /\ UNCHANGED <<toSend, inPipe, closed, chunk, buffer, handlerDone, pending, dispatched,
                   emitted, outBytes, storeVars, otherThanLines>>

\* sendOut: WriteFile puts the next byte of the line in the pipe
SendWrite(c) ==
    /\ sending[c] /\ wr[c] # <<>>
    /\ outBytes' = Append(outBytes, [b |-> Head(wr[c]), by |-> c])
    /\ wr' = [wr EXCEPT ![c] = Tail(@)]
    /\ UNCHANGED <<toSend, inPipe, closed, chunk, buffer, handlerDone, pending, sending,
                   gOutPipeMtx, dispatched, emitted, storeVars, otherThanLines>>

\* sendOut returns and the lock_guard releases the mutex
SendUnlock(c) ==
    /\ sending[c] /\ wr[c] = <<>>
    /\ sending' = [sending EXCEPT ![c] = FALSE]
    /\ gOutPipeMtx' = 0
    /\ pending' = [pending EXCEPT ![c] = Tail(@)]
    /\ UNCHANGED <<toSend, inPipe, closed, chunk, buffer, handlerDone, wr, dispatched,
                   emitted, outBytes, storeVars, otherThanLines>>

\* every client connected to its worker, nothing written yet
InitLines ==
    /\ StoreInit
    /\ ahkOk = TRUE /\ relockBuild = "recursive"
    /\ toSend = ClientScripts
    /\ inPipe = [c \in Conns |-> <<>>]
    /\ closed = [c \in Conns |-> FALSE]
    /\ chunk = [c \in Conns |-> <<>>]
    /\ buffer = [c \in Conns |-> <<>>]
    /\ handlerDone = [c \in Conns |-> FALSE]
    /\ pending = [c \in Conns |-> <<>>]
    /\ sending = [c \in Conns |-> FALSE]
    /\ wr = [c \in Conns |-> <<>>]
    /\ gOutPipeMtx = 0
    /\ dispatched = [c \in Conns |-> <<>>]
    /\ emitted = [c \in Conns |-> <<>>]
    /\ outBytes = <<>>
    /\ TickIdle
    /\ WdIdle
    /\ PoolIdle
    /\ MouseIdle
    /\ AttachIdle
    /\ ExtIdle

NextLines ==
    \/ \E c \in Conns : ClientWrite(c)
    \/ \E c \in Conns : ClientClose(c)
    \/ \E c \in Conns : HandlerRead(c)
    \/ \E c \in Conns : HandlerByte(c)
    \/ \E c \in Conns : HandlerEof(c)
    \/ \E c \in Conns : SendLock(c)
    \/ \E c \in Conns : SendWrite(c)
    \/ \E c \in Conns : SendUnlock(c)

SpecLines == InitLines /\ [][NextLines]_vars

\* ------------------------------------------------------------ claims, SpecLines
IsPrefix(a, b) == Len(a) <= Len(b) /\ SubSeq(b, 1, Len(a)) = a

\* the lines of ls, each followed by a newline
RECURSIVE JoinLines(_)
JoinLines(ls) == IF ls = <<>> THEN <<>> ELSE Head(ls) \o <<NL>> \o JoinLines(Tail(ls))

\* the bytes of the events es as sendOut writes them
RECURSIVE JoinEvents(_)
JoinEvents(es) == IF es = <<>> THEN <<>> ELSE EventBytes(Head(es)) \o JoinEvents(Tail(es))

\* the bytes of the outbound pipe that writer c put there, in order
RECURSIVE WrittenBy(_, _)
WrittenBy(out, c) ==
    IF out = <<>> THEN <<>>
    ELSE (IF Head(out).by = c THEN <<Head(out).b>> ELSE <<>>) \o WrittenBy(Tail(out), c)

(* C5: the strings a handler passes to the dispatcher are, in order, the    *)
(* lines its own client wrote, byte for byte; and in the outbound pipe the   *)
(* bytes between two newlines all come from one writer, each writer's bytes  *)
(* being the lines of the events it emitted, in the order it emitted them.   *)
C5_LinesNotMixed ==
    /\ \A c \in Conns :
           IsPrefix(JoinLines(dispatched[c]), ClientScripts[c] \o <<NL>>)
    /\ \A i \in DOMAIN outBytes :
           (i > 1 /\ outBytes[i - 1].b.ch # NL) => outBytes[i].by = outBytes[i - 1].by
    /\ \A c \in Conns : IsPrefix(WrittenBy(outBytes, c), JoinEvents(emitted[c]))

C5_Witness ==
    /\ \A c \in Conns : handlerDone[c] /\ pending[c] = <<>> /\ Len(dispatched[c]) = 2
    /\ Len(outBytes) = 16
    /\ outBytes[1].by = 2 /\ outBytes[5].by = 1 /\ outBytes[9].by = 2

(* C21: a handler starts the dispatch of a line only when the dispatch of   *)
(* the line before it has returned, with all its events sent, and the lines *)
(* it has dispatched are the lines its client sent, in the client's order.  *)
C21_DispatchInOrder ==
    [][\A c \in Conns :
          dispatched'[c] # dispatched[c]
              => (/\ pending[c] = <<>>
                  /\ ~sending[c]
                  /\ Len(dispatched'[c]) = Len(dispatched[c]) + 1
                  /\ SubSeq(dispatched'[c], 1, Len(dispatched[c])) = dispatched[c]
                  /\ IsPrefix(JoinLines(dispatched'[c]), ClientScripts[c] \o <<NL>>))]_vars

\* client 1's list and then its clear have been dispatched; the list's events
\* were all written before the clear's
C21_Witness ==
    /\ dispatched[1] = << <<"{", "cmd:list", "}">>, <<"{", "cmd:clear", "}">> >>
    /\ emitted[1] # <<>>
    /\ emitted[1][Len(emitted[1])] = EvCleared
    /\ pending[1] = <<>>
    /\ IsPrefix(JoinEvents(emitted[1]), WrittenBy(outBytes, 1))

\* ------------------------------------------------------------ long lines
\* (InboundClientHandler on a line longer than its limit)
\* a line of kMaxLine + 52 characters that starts as a clear command
LongLine ==
    <<"{", "cmd:clear">> \o [i \in 1 .. (kMaxLine + 49) |-> "x"] \o <<"}">>

ListLine == <<"{", "cmd:list", "}">>

\* client 1 sends the long line and then a list; client 2 sends nothing
LongLines == << <<LongLine, ListLine>>, <<>> >>

LongScripts == [c \in Conns |-> JoinLines(LongLines[c])]

\* the position of the first newline of s, Len(s) if it has none
FirstNL(s) ==
    LET nl == {i \in DOMAIN s : s[i] = NL}
    IN IF nl = {} THEN Len(s) ELSE CHOOSE i \in nl : \A j \in nl : i <= j

\* the client writes its next line, newline included, with one WriteFile
ClientWriteLine(c) ==
    /\ toSend[c] # <<>> /\ ~closed[c]
    /\ LET n == FirstNL(toSend[c])
       IN /\ inPipe' = [inPipe EXCEPT ![c] = @ \o SubSeq(toSend[c], 1, n)]
          /\ toSend' = [toSend EXCEPT ![c] = SubSeq(@, n + 1, Len(@))]
    /\ UNCHANGED <<closed, chunk, buffer, handlerDone, pending, sending, wr, gOutPipeMtx,
                   dispatched, emitted, outBytes, storeVars, otherThanLines>>

pushAllUnlimited(buf, s) == buf \o s

\* the guarded push_back of the characters of s, one after the other: the
\* guard buffer.size() < kMaxLine passes for the first kMaxLine - Len(buf)
\* of them and fails for the rest
pushAll(buf, s) ==
    LET room == kMaxLine - Len(buf)
    IN IF Len(s) <= room THEN buf \o s ELSE buf \o SubSeq(s, 1, room)

\* the passes of the for loop over the characters of the chunk that come
\* before its first newline: they touch the handler's own buffer only
HandlerRun(c) ==
    /\ chunk[c] # <<>> /\ handleCommandReturned(c)
    /\ Head(chunk[c]) # NL
    /\ LET nl == {i \in DOMAIN chunk[c] : chunk[c][i] = NL}
           n == IF nl = {} THEN Len(chunk[c]) ELSE FirstNL(chunk[c]) - 1
       IN /\ buffer' = [buffer EXCEPT ![c] = pushAll(@, SubSeq(chunk[c], 1, n))]
          /\ chunk' = [chunk EXCEPT ![c] = SubSeq(@, n + 1, Len(@))]
    /\ UNCHANGED <<toSend, inPipe, closed, handlerDone, pending, sending, wr, gOutPipeMtx,
                   dispatched, emitted, outBytes, storeVars, otherThanLines>>

\* the pass of the for loop on a newline
HandlerNewline(c) == chunk[c] # <<>> /\ Head(chunk[c]) = NL /\ HandlerByte(c)

\* every client connected to its worker, nothing written yet
InitLong ==
    /\ StoreInit
    /\ ahkOk = TRUE /\ relockBuild = "recursive"
    /\ toSend = LongScripts
    /\ inPipe = [c \in Conns |-> <<>>]
    /\ closed = [c \in Conns |-> FALSE]
    /\ chunk = [c \in Conns |-> <<>>]
    /\ buffer = [c \in Conns |-> <<>>]
    /\ handlerDone = [c \in Conns |-> FALSE]
    /\ pending = [c \in Conns |-> <<>>]
    /\ sending = [c \in Conns |-> FALSE]
    /\ wr = [c \in Conns |-> <<>>]
    /\ gOutPipeMtx = 0
    /\ dispatched = [c \in Conns |-> <<>>]
    /\ emitted = [c \in Conns |-> <<>>]
    /\ outBytes = <<>>
    /\ TickIdle
    /\ WdIdle
    /\ PoolIdle
    /\ MouseIdle
    /\ AttachIdle
    /\ ExtIdle

NextLong ==
    \/ \E c \in Conns : ClientWriteLine(c)
    \/ \E c \in Conns : ClientClose(c)
    \/ \E c \in Conns : HandlerRead(c)
    \/ \E c \in Conns : HandlerRun(c)
    \/ \E c \in Conns : HandlerNewline(c)
    \/ \E c \in Conns : HandlerEof(c)
    \/ \E c \in Conns : SendLock(c)
    \/ \E c \in Conns : SendWrite(c)
    \/ \E c \in Conns : SendUnlock(c)

SpecLong == InitLong /\ [][NextLong]_vars

\* ------------------------------------------------------------ claims, SpecLong
\* the first kMaxLine characters of a line
Truncated(line) == IF Len(line) > kMaxLine THEN SubSeq(line, 1, kMaxLine) ELSE line

(* C22: a handler's buffer never holds more than kMaxLine characters; the   *)
(* lines it dispatches are its client's lines, an over-long one cut to its  *)
(* first kMaxLine characters and the others unaltered; and the handler goes *)
(* on to the end of the connection.                                         *)
C22_LineLimit ==
    \A c \in Conns :
        /\ Len(buffer[c]) <= kMaxLine
        /\ Len(dispatched[c]) <= Len(LongLines[c])
        /\ \A i \in DOMAIN dispatched[c] : dispatched[c][i] = Truncated(LongLines[c][i])
        /\ handlerDone[c] => Len(dispatched[c]) = Len(LongLines[c])

\* the handler has returned after the cut long line and the list that followed
C22_Witness ==
    /\ handlerDone[1]
    /\ Len(dispatched[1]) = 2
    /\ Len(dispatched[1][1]) = kMaxLine
    /\ dispatched[1][2] = ListLine
    /\ emitted[1] = <<EvCleared, EvListDone>>

\* ------------------------------------------------------------ outbound pipe
\* (OutPipeThread and sendOut, step by step, beside threads that run commands)
MaxDelivered == 3

\* sendOut's body under the lock: WriteFile when gOutPipeReady and the handle
\* is set; WriteFile to a pipe whose reader has gone fails and writes nothing
sendOutWriteAlways(ready, attached, out, line) == Append(out, line)
sendOutWrite(ready, attached, out, line) ==
    IF ready /\ attached THEN Append(out, line) ELSE out

\* ConnectNamedPipe returns: a subscriber has opened the pipe
OutConnect ==
    /\ outPc = "listening"
    /\ outPc' = "connected"
    /\ subAttached' = TRUE
    /\ delivered' = <<>>
    /\ UNCHANGED <<emPc, emPending, gOutPipeReady, gOutPipeMtx, storeVars, otherThanAttach>>

\* OutPipeThread takes gOutPipeMtx for the block that publishes the handle
OutLock ==
    /\ outPc = "connected"
    /\ LockFree(gOutPipeMtx)
    /\ gOutPipeMtx' = OutThread
    /\ outPc' = "publishing"
    /\ UNCHANGED <<subAttached, emPc, emPending, delivered, gOutPipeReady, storeVars,
                   otherThanAttach>>

\* gOutPipe = hPipe; gOutPipeReady = true; and the block ends: the lock is released
OutPublish ==
    /\ outPc = "publishing"
    /\ gOutPipeReady' = TRUE
    /\ gOutPipeMtx' = 0
    /\ outPc' = "announce"
    /\ UNCHANGED <<subAttached, emPc, emPending, delivered, storeVars, otherThanAttach>>

\* sendOut("connected"): the lock_guard
OutSendLock ==
    /\ outPc = "announce"
    /\ LockFree(gOutPipeMtx)
    /\ gOutPipeMtx' = OutThread
    /\ outPc' = "announcing"
    /\ UNCHANGED <<subAttached, emPc, emPending, delivered, gOutPipeReady, storeVars,
                   otherThanAttach>>

\* sendOut("connected"): the write, and the return that releases the lock
OutSendWrite ==
    /\ outPc = "announcing"
    /\ delivered' = sendOutWrite(gOutPipeReady, subAttached, delivered, EvConnected)
    /\ gOutPipeMtx' = 0
    /\ outPc' = "serving"
    /\ UNCHANGED <<subAttached, emPc, emPending, gOutPipeReady, storeVars, otherThanAttach>>

\* the subscriber closes its end
SubscriberLeaves ==
    /\ subAttached
    /\ outPc = "serving"
    /\ subAttached' = FALSE
    /\ UNCHANGED <<outPc, emPc, emPending, delivered, gOutPipeReady, gOutPipeMtx,
                   storeVars, otherThanAttach>>

\* OutPipeThread leaves its wait loop and resets the handle under the lock
OutDisconnect ==
    /\ outPc = "serving"
    /\ ~subAttached
    /\ LockFree(gOutPipeMtx)
    /\ gOutPipeReady' = FALSE
    /\ outPc' = "listening"
    /\ UNCHANGED <<subAttached, emPc, emPending, delivered, gOutPipeMtx, storeVars,
                   otherThanAttach>>

EmitterLines == { [cmd |-> "add", id |-> 1], [cmd |-> "clear"] }

\* an emitting thread runs handleCommand on a line, up to its calls of sendOut
EmCommand(e) ==
    /\ emPc[e] = "idle"
    /\ Len(delivered) < MaxDelivered
    /\ \E kv \in EmitterLines :
           \E w \in {handleCommand(World, kv)} :
               /\ Bounded(w)
               /\ Commit(w, kv)
               /\ emPending' = [emPending EXCEPT ![e] = w.events]
               /\ emPc' = [emPc EXCEPT ![e] = IF w.events = <<>> THEN "idle" ELSE "call"]
    /\ UNCHANGED <<outPc, subAttached, delivered, gOutPipeReady, gOutPipeMtx,
                   otherThanAttach>>

\* sendOut: the lock_guard
EmLock(e) ==
    /\ emPc[e] = "call"
    /\ LockFree(gOutPipeMtx)
    /\ gOutPipeMtx' = e
    /\ emPc' = [emPc EXCEPT ![e] = "locked"]
    /\ UNCHANGED <<outPc, subAttached, emPending, delivered, gOutPipeReady, storeVars,
                   otherThanAttach>>

\* sendOut: the write, if any, and the return that releases the lock
EmWrite(e) ==
    /\ emPc[e] = "locked"
    /\ delivered' = sendOutWrite(gOutPipeReady, subAttached, delivered,
                                 Head(emPending[e]))
    /\ emPending' = [emPending EXCEPT ![e] = Tail(@)]
    /\ emPc' = [emPc EXCEPT ![e] = IF Tail(emPending[e]) = <<>> THEN "idle" ELSE "call"]
    /\ gOutPipeMtx' = 0
    /\ UNCHANGED <<outPc, subAttached, gOutPipeReady, storeVars, otherThanAttach>>

\* no subscriber yet, OutPipeThread in ConnectNamedPipe
InitAttach ==
    /\ StoreInit /\ ahkOk = TRUE /\ relockBuild = "recursive"
    /\ TickIdle
    /\ WdIdle
    /\ LinesIdle
    /\ MouseIdle
    /\ ExtIdle
    /\ conn = [c \in Workers |-> "listening"]
    /\ trailingNewline = TRUE
    /\ gotAdded = [c \in Workers |-> 0]
    /\ gotListDone = [c \in Workers |-> 0]
    /\ outAdded = 0
    /\ outListDone = 0
    /\ gOutPipeReady = FALSE
    /\ outPc = "listening"
    /\ subAttached = FALSE
    /\ emPc = [e \in Emitters |-> "idle"]
    /\ emPending = [e \in Emitters |-> <<>>]
    /\ delivered = <<>>

NextAttach ==
    \/ OutConnect
    \/ OutLock
    \/ OutPublish
    \/ OutSendLock
    \/ OutSendWrite
    \/ SubscriberLeaves
    \/ OutDisconnect
    \/ \E e \in Emitters : EmCommand(e) \/ EmLock(e) \/ EmWrite(e)

SpecAttach == InitAttach /\ [][NextAttach]_vars

\* ------------------------------------------------------------ claims, SpecAttach
(* C19: the first event written to a newly attached subscriber is the       *)
(* connected event.                                                         *)
C19_ConnectedFirst == delivered # <<>> => delivered[1] = EvConnected

MaxClients == 9

Clients == 1 .. MaxClients

NewClient == [st |-> "new", by |-> 0, open |-> FALSE, sent |-> FALSE]

\* the clients whose handler is running in worker w
ServedBy(w) == {k \in Clients : clients[k].st = "served" /\ clients[k].by = w}

\* a worker that hands the connection to a thread of its own and loops
AtConnectNamedPipeDetached(w) == TRUE

\* worker w is in ConnectNamedPipe: InboundClientHandler is called in the
\* worker's own thread, so the worker is back at CreateNamedPipeW and
\* ConnectNamedPipe only when the handler of its last client has returned
AtConnectNamedPipe(w) == ServedBy(w) = {}

\* CreateFileW of client k succeeds on the instance of worker w, whose
\* ConnectNamedPipe returns and calls InboundClientHandler
ServeConnect(k, w) ==
    /\ clients[k].st = "new"
    /\ \A j \in Clients : j < k => clients[j].st # "new"
    /\ AtConnectNamedPipe(w)
    /\ \A v \in Workers : v < w => ~AtConnectNamedPipe(v)
    /\ clients' = [clients EXCEPT ![k] = [st |-> "served", by |-> w, open |-> TRUE, sent |-> FALSE]]
    /\ UNCHANGED <<storeVars, tickVars, wdVars, poolVars, lineVars, mouseVars, attachVars, hbVars, scriptVars, lockVars, lateVars>>

\* client k writes its line and closes its end of the pipe (sendCommand)
ServeClientCloses(k) ==
    /\ clients[k].st = "served" /\ clients[k].open
    /\ \A j \in Clients : j < k => ~clients[j].open
    /\ clients' = [clients EXCEPT ![k].open = FALSE]
    /\ UNCHANGED <<storeVars, tickVars, wdVars, poolVars, lineVars, mouseVars, attachVars, hbVars, scriptVars, lockVars, lateVars>>

\* the handler of client k reads the client's line and dispatches it at its
\* newline; its next ReadFile fails, every byte being read and the client's
\* end closed; the handler disconnects and closes the instance and returns
\* to the worker's loop
ServeReturn(k) ==
    /\ clients[k].st = "served" /\ ~clients[k].open
    /\ \E w \in {handleCommand(World, PoolListLine)} : Commit(w, PoolListLine)
    /\ clients' = [clients EXCEPT ![k] = [st |-> "done", by |-> 0, open |-> FALSE, sent |-> TRUE]]
    /\ UNCHANGED <<tickVars, wdVars, poolVars, lineVars, mouseVars, attachVars, hbVars, scriptVars, lockVars, lateVars>>

\* the pool started, every worker in ConnectNamedPipe, no client yet
InitServe ==
    /\ LateIdle
    /\ StoreInit
    /\ ahkOk = TRUE /\ relockBuild = "recursive"
    /\ clients = [k \in Clients |-> NewClient]
    /\ HbIdle
    /\ ScriptIdle
    /\ LockIdle
    /\ TickIdle
    /\ WdIdle
    /\ PoolIdle
    /\ LinesIdle
    /\ MouseIdle
    /\ AttachIdle

NextServe ==
    \/ \E k \in Clients, w \in Workers : ServeConnect(k, w)
    \/ \E k \in Clients : ServeClientCloses(k)
    \/ \E k \in Clients : ServeReturn(k)

SpecServe == InitServe /\ [][NextServe]_vars

\* ------------------------------------------------------------ claims, SpecServe
(* C23: at every moment at most kInboundListenerCount clients are being     *)
(* served and no worker serves two clients at the same time; a client whose *)
(* handler has returned has closed its end; and at the step in which a      *)
(* worker takes a client no handler is running in that worker.              *)
C23_OneClientPerWorker ==
    /\ [](/\ Cardinality({k \in Clients : clients[k].st = "served"}) <= kInboundListenerCount
          /\ \A w \in Workers : Cardinality(ServedBy(w)) <= 1
          /\ \A k \in Clients : clients[k].st = "done" => (~clients[k].open /\ clients[k].sent))
    /\ [][\A k \in Clients :
             (clients[k].st = "new" /\ clients'[k].st = "served")
                 => ServedBy(clients'[k].by) = {}]_vars

\* every worker is serving a client, the last client among them, after the
\* handler of an earlier client has returned
C23_Witness ==
    /\ Cardinality({k \in Clients : clients[k].st = "served"}) = kInboundListenerCount
    /\ clients[MaxClients].st = "served"
    /\ \E j \in Clients : clients[j].st = "done"


\* ------------------------------------------------------------ heartbeat
\* (HeartbeatThread, UpdateThread and the watchdog's polls)
\* HeartbeatThread sleeps one second between two writes and the watchdog
\* pollIntervalMs = 1000 between two polls: time is counted in these periods,
\* each task acts once in a period, and the age of the record is capped at
\* MaxAge.  CreateProcessA on the worker's executable succeeds.
kHeartbeatPeriodMs == 1000
MaxAge == 7

\* a heartbeat task that writes only while the worker makes progress
HeartbeatRunsWhileProgress == childAlive /\ ~stalled

\* while(gManager.running && gHeartbeatRunning): the task runs as long as the
\* worker process does, whatever the tick task and the dispatch are doing
HeartbeatRuns == childAlive

\* HeartbeatThread writes the clock reading into the record
HeartbeatWrite ==
    /\ HeartbeatRuns /\ hbDue
    /\ hbAge' = 0
    /\ hbDue' = FALSE
    /\ UNCHANGED <<stalled, pollDue, clients, storeVars, tickVars, wdVars, poolVars,
                   lineVars, mouseVars, attachVars, scriptVars, lockVars, lateVars>>

\* one period passes once the watchdog and the heartbeat task, if it runs,
\* have acted in the current one
TimePasses ==
    /\ ~pollDue
    /\ HeartbeatRuns => ~hbDue
    /\ hbAge' = (IF hbAge < MaxAge THEN hbAge + 1 ELSE hbAge)
    /\ hbDue' = TRUE
    /\ pollDue' = TRUE
    /\ UNCHANGED <<stalled, clients, storeVars, tickVars, wdVars, poolVars, lineVars,
                   mouseVars, attachVars, scriptVars, lockVars, lateVars>>

\* the tick task or the command dispatch of the running worker stops for good
\* (a thread blocked in gManager.mtx, an endless wait in a handler), some
\* time after a write of its record
WorkerStalls ==
    /\ childAlive /\ ~stalled /\ hbAge <= 1
    /\ stalled' = TRUE
    /\ UNCHANGED <<hbAge, hbDue, pollDue, clients, storeVars, tickVars, wdVars, poolVars,
                   lineVars, mouseVars, attachVars, scriptVars, lockVars, lateVars>>

\* a poll of the watchdog that reads the record; a worker it launches starts
\* with its tasks running
HbPoll ==
    /\ pollDue
    /\ WdPollWith(NowMs - hbAge * kHeartbeatPeriodMs, TRUE, TRUE)
    /\ stalled' = (stalled /\ pollOps' = <<>>)
    /\ pollDue' = FALSE
    /\ UNCHANGED <<hbAge, hbDue, clients, storeVars, tickVars, poolVars, lineVars,
                   mouseVars, attachVars, scriptVars, lockVars, lateVars>>

\* the worker process ends by itself, some time after a write of its record
HbWorkerExits ==
    /\ childAlive /\ hbAge <= 1
    /\ childAlive' = FALSE
    /\ stalled' = FALSE
    /\ UNCHANGED <<hProcess, staleCount, staleRetries, stopFile, wdDone, pollStale,
                   pollAlive, pollOps, staleRun, runAlive, runOps,
                   hbAge, hbDue, pollDue, clients, storeVars, tickVars, poolVars,
                   lineVars, mouseVars, attachVars, scriptVars, lockVars, lateVars>>

\* the watchdog started with no stop file and no record written yet
InitHeartbeat ==
    /\ LateIdle
    /\ StoreInit /\ ahkOk = TRUE /\ relockBuild = "recursive"
    /\ TickIdle
    /\ PoolIdle
    /\ LinesIdle
    /\ MouseIdle
    /\ AttachIdle
    /\ ServeIdle
    /\ ScriptIdle
    /\ LockIdle
    /\ hbAge = MaxAge /\ stalled = FALSE /\ hbDue = TRUE /\ pollDue = TRUE
    /\ hProcess = FALSE
    /\ childAlive = FALSE
    /\ staleCount = 0
    /\ staleRetries \in { ClampRetries(r) : r \in RetryArgs }
    /\ stopFile = FALSE
    /\ wdDone = FALSE
    /\ pollStale = FALSE
    /\ pollAlive = FALSE
    /\ pollOps = <<>>
    /\ staleRun = 0
    /\ runAlive = TRUE
    /\ runOps = <<>>

NextHeartbeat ==
    \/ HeartbeatWrite
    \/ TimePasses
    \/ WorkerStalls
    \/ HbPoll
    \/ HbWorkerExits

\* the heartbeat task and the watchdog's main thread are scheduled, and time
\* passes
SpecHeartbeat ==
    /\ InitHeartbeat /\ [][NextHeartbeat]_vars
    /\ WF_vars(HeartbeatWrite) /\ WF_vars(TimePasses) /\ WF_vars(HbPoll)

\* ------------------------------------------------------------ claims, SpecHeartbeat
(* C27: a worker that has stalled and stays alive is eventually terminated  *)
(* by a poll of the watchdog (which then launches it again).                *)
C27_StallRestarts ==
    (stalled /\ childAlive)
        ~> (~childAlive \/ \E i \in DOMAIN pollOps : pollOps[i] = "terminate")


\* ------------------------------------------------------------ script channel
\* (ScriptPipeReader, StopScriptPipe, CleanupScriptProcess and the remove
\* branch of handleCommand, statement by statement, for one Scripted entity
\* whose subprocess was launched and has connected to its channel)
otherThanScript ==
    <<storeVars, tickVars, wdVars, poolVars, lineVars, mouseVars, attachVars,
      serveVars, hbVars, lockVars, lateVars>>

\* the threads that can dispatch a remove for the entity: the handler of a
\* command-channel client and the entity's own reader task
Removers == {"client", "reader"}

\* the sub-protocol messages the subprocess writes, at most MaxMsgs of them
MaxMsgs == 2
ScriptMsgs == {"pos", "log", "remove"}

EvRemovedOk(ok) == [event |-> "removed", ok |-> ok]
EvScriptLog == [event |-> "scriptLog"]
EvScriptExit == [event |-> "scriptExit"]

Did(s, op) == [s EXCEPT !.ops = Append(@, op)]
Emit(s, ev) == [s EXCEPT !.events = Append(@, ev)]

\* a cleanup that leaves the subprocess to end by itself
CleanupScriptProcessStepsNoKill(s) == [s EXCEPT !.procRunning = FALSE]

\* CleanupScriptProcess(c): WaitForSingleObject(h, 0) only asks whether the
\* process has exited; if it has not, TerminateProcess is called at once
CleanupScriptProcessSteps(s) ==
    IF ~s.procRunning THEN s
    ELSE [(IF s.sub = "running" THEN Did([s EXCEPT !.sub = "terminated"], "terminate") ELSE s)
             EXCEPT !.procRunning = FALSE]

\* StopScriptPipe(id): the record leaves gScriptPipes, running is cleared, the
\* pending read is cancelled and the handle closed, the thread detached, and
\* the ScriptPipeInfo destroyed when owned goes out of scope
StopScriptPipeSteps(s) ==
    IF ~s.registered THEN s
    ELSE Did(Did([s EXCEPT !.registered = FALSE, !.running = FALSE,
                           !.pipeOpen = FALSE, !.freed = TRUE],
                 "stopReader"), "closeChannel")

\* the process has not been brought down by a wild read of the reader
Up == script.rdPc # "crashed"

\* a client's remove line for the entity reaches handleCommand
ClientRemove ==
    /\ Up /\ script.rmPc["client"] = "idle"
    /\ script' = [script EXCEPT !.rmPc["client"] = "lock"]
    /\ UNCHANGED otherThanScript

\* std::lock_guard lock(gManager.mtx) of the remove branch
RmLock(t) ==
    /\ Up /\ script.rmPc[t] = "lock" /\ script.mtx = ""
    /\ script' = [script EXCEPT !.mtx = t, !.rmPc[t] = "cleanup"]
    /\ UNCHANGED otherThanScript

\* for(c : cursors) if(c.id==id && c.behavior==Script) CleanupScriptProcess(c)
RmCleanup(t) ==
    /\ Up /\ script.rmPc[t] = "cleanup"
    /\ script' = [(IF script.entity THEN CleanupScriptProcessSteps(script) ELSE script)
                     EXCEPT !.rmPc[t] = "stopPipe"]
    /\ UNCHANGED otherThanScript

\* StopScriptPipe(id) of the remove branch
RmStopPipe(t) ==
    /\ Up /\ script.rmPc[t] = "stopPipe"
    /\ script' = [StopScriptPipeSteps(script) EXCEPT !.rmPc[t] = "removeCursor"]
    /\ UNCHANGED otherThanScript

\* ok = gManager.removeCursor(id): it locks gManager.mtx, which the thread
\* holds; the build either lets the owner through, and the lock of the
\* branch is released when removeCursor has returned, or blocks the thread
\* for ever with the lock held
RmRemoveCursor(t) ==
    /\ Up /\ script.rmPc[t] = "removeCursor"
    /\ script' = IF relockBuild = "recursive"
                 THEN [script EXCEPT !.entity = FALSE, !.found[t] = script.entity,
                                     !.mtx = "", !.rmPc[t] = "event"]
                 ELSE [script EXCEPT !.rmPc[t] = "hung"]
    /\ UNCHANGED otherThanScript

\* sendOut of the removed event; handleCommand returns
RmEvent(t) ==
    /\ Up /\ script.rmPc[t] = "event"
    /\ script' = [Emit(script, EvRemovedOk(script.found[t])) EXCEPT !.rmPc[t] = "done"]
    /\ UNCHANGED otherThanScript

\* the subprocess writes a line on its channel and ReadFile returns it
ScriptSends(m) ==
    /\ Up /\ script.rdPc = "reading" /\ script.sub = "running" /\ script.pipeOpen
    /\ script.msgs < MaxMsgs
    /\ script' = [script EXCEPT !.rdPc = m, !.msgs = @ + 1]
    /\ UNCHANGED otherThanScript

\* cmd == "pos": the position is written under gManager.mtx
RdPos ==
    /\ Up /\ script.rdPc = "pos" /\ script.mtx = ""
    /\ script' = [script EXCEPT !.rdPc = "test"]
    /\ UNCHANGED otherThanScript

\* cmd == "log"
RdLog ==
    /\ Up /\ script.rdPc = "log"
    /\ script' = [Emit(script, EvScriptLog) EXCEPT !.rdPc = "test"]
    /\ UNCHANGED otherThanScript

\* cmd == "remove": StopScriptPipe(id), then handleCommand on a remove line
RdRemove ==
    /\ Up /\ script.rdPc = "remove"
    /\ script' = [StopScriptPipeSteps(script) EXCEPT !.rdPc = "dispatch", !.rmPc["reader"] = "lock"]
    /\ UNCHANGED otherThanScript

\* handleCommand has returned to the reader
RdDispatched ==
    /\ Up /\ script.rdPc = "dispatch" /\ script.rmPc["reader"] = "done"
    /\ script' = [script EXCEPT !.rdPc = "test"]
    /\ UNCHANGED otherThanScript

\* the loop test spi->running.  Once StopScriptPipe has destroyed the
\* ScriptPipeInfo the test reads freed memory: the loop is left (whatever is
\* read, ReadFile on the closed handle fails) or the read faults
RdLoopTest ==
    /\ Up /\ script.rdPc = "test"
    /\ \E outcome \in (IF script.freed THEN {"exit", "crashed"}
                       ELSE IF script.running THEN {"reading"} ELSE {"exit"}) :
           script' = [script EXCEPT !.rdPc = outcome]
    /\ UNCHANGED otherThanScript

\* ReadFile fails: the read was cancelled and the handle closed, or the
\* subprocess is gone and the pipe broken
RdReadFails ==
    /\ Up /\ script.rdPc = "reading"
    /\ ~script.pipeOpen \/ script.sub # "running"
    /\ script' = [script EXCEPT !.rdPc = "exit"]
    /\ UNCHANGED otherThanScript

\* sendOut of the scriptExit event; the reader returns
RdExit ==
    /\ Up /\ script.rdPc = "exit"
    /\ script' = [Emit(script, EvScriptExit) EXCEPT !.rdPc = "done"]
    /\ UNCHANGED otherThanScript

\* the subprocess ends by itself
SubExits ==
    /\ Up /\ script.sub = "running"
    /\ script' = [script EXCEPT !.sub = "exited"]
    /\ UNCHANGED otherThanScript

\* the entity added and its subprocess launched and connected: the reader
\* is in ReadFile
InitScript ==
    /\ LateIdle
    /\ StoreInit /\ ahkOk = TRUE
    /\ relockBuild \in {"recursive", "deadlock"}
    /\ TickIdle
    /\ WdIdle
    /\ PoolIdle
    /\ LinesIdle
    /\ MouseIdle
    /\ AttachIdle
    /\ ServeIdle
    /\ HbIdle
    /\ LockIdle
    /\ script = [entity |-> TRUE, procRunning |-> TRUE, sub |-> "running",
                 registered |-> TRUE, running |-> TRUE, pipeOpen |-> TRUE, freed |-> FALSE,
                 rdPc |-> "reading", rmPc |-> [t \in Removers |-> "idle"],
                 found |-> [t \in Removers |-> FALSE],
                 mtx |-> "", msgs |-> 0, ops |-> <<>>, events |-> <<>>]

ScriptThreads ==
    \/ \E t \in Removers : RmLock(t)
    \/ \E t \in Removers : RmCleanup(t)
    \/ \E t \in Removers : RmStopPipe(t)
    \/ \E t \in Removers : RmRemoveCursor(t)
    \/ \E t \in Removers : RmEvent(t)
    \/ RdPos
    \/ RdLog
    \/ RdRemove
    \/ RdDispatched
    \/ RdLoopTest
    \/ RdReadFails
    \/ RdExit

NextScript ==
    \/ ClientRemove
    \/ \E m \in ScriptMsgs : ScriptSends(m)
    \/ SubExits
    \/ ScriptThreads

SpecScript == InitScript /\ [][NextScript]_vars

\* the worker's threads are scheduled
SpecScriptFair == SpecScript /\ WF_vars(ScriptThreads)

\* ------------------------------------------------------------ claims, SpecScript
Before(ops, a, b) ==
    \A i \in DOMAIN ops : ops[i] = b => \E j \in 1 .. (i - 1) : ops[j] = a

(* C28: in the teardown of a Scripted entity the reader is stopped before  *)
(* the subprocess is terminated, and the subprocess is terminated before   *)
(* the channel is released: TerminateProcess is never called while the     *)
(* reader is still accepting input, and never after the channel was closed.*)
C28_TeardownOrder ==
    /\ Before(script.ops, "stopReader", "terminate")
    /\ \A i \in DOMAIN script.ops : \A j \in DOMAIN script.ops :
           (script.ops[i] = "terminate" /\ script.ops[j] = "closeChannel") => i < j

(* C30: once the reader has taken a remove message from the subprocess, the *)
(* remove dispatch returns with the entity out of the store and a removed   *)
(* event emitted, and the reader ends, the scriptExit event being the last  *)
(* one emitted.                                                             *)
C30_ScriptRemove ==
    (script.rdPc = "remove")
        ~> /\ script.rdPc = "done" /\ script.rmPc["reader"] = "done"
           /\ ~script.entity
           /\ \E i \in DOMAIN script.events : script.events[i].event = "removed"
           /\ script.events[Len(script.events)] = EvScriptExit


(* C35: no step of the reader reads its ScriptPipeInfo (the loop test on    *)
(* spi->running and the handle passed to ReadFile) once StopScriptPipe has  *)
(* released the record.                                                     *)
C35_NoReadAfterRelease ==
    [][script.freed => ~(script.rdPc = "test" /\ script'.rdPc # "test")]_vars


\* ------------------------------------------------------------ collection lock
\* (std::lock_guard on gManager.mtx in updateAll, addCursor, the branches of
\* handleCommand and ScriptPipeReader, statement by statement)
\* The store holds a Mirror entity 1 and a Scripted entity 2 whose subprocess
\* runs.  The tick task makes its passes one entity at a time, one command
\* handler dispatches up to MaxJobs lines, and the reader of entity 2 takes
\* pos messages.
MaxJobs == 2
MaxPos == 1

LockThreads == {"tick", "cmd", "reader"}

LockJobs ==
    { [cmd |-> "add", id |-> 3, behavior |-> "script", script |-> "a.ahk"],
      [cmd |-> "set", id |-> 2, x |-> 3],
      [cmd |-> "tweak", id |-> 1, offsetY |-> 2],
      [cmd |-> "remove", id |-> 1],
      [cmd |-> "clear"] }

LockCursors ==
    << [AddBase([cmd |-> "add", id |-> 1, offsetX |-> 1]) EXCEPT !.id = 1],
       [AddBase([cmd |-> "add", id |-> 2, behavior |-> "script", script |-> "a.ahk"])
            EXCEPT !.id = 2, !.scriptPi = 1, !.scriptProcessRunning = TRUE] >>

\* a mutex that lets every thread in
LockGrantedAlways(t) == TRUE

\* the constructor of std::lock_guard returns in thread t
LockGranted(t) == locks.mtx = ""

\* the tick pass has made its first entity update and not yet its last
TickMidPass == locks.pc["tick"] = "in" /\ locks.i > 1 /\ locks.i <= Len(cursors)

\* what is observed of a write to the collection by thread t
Observed(l, t) ==
    [l EXCEPT !.bare = @ \/ locks.mtx # t,
              !.torn = @ \/ (t # "tick" /\ TickMidPass)]

LockAcquire(t) ==
    /\ locks.pc[t] = "want" /\ LockGranted(t)
    /\ locks' = [locks EXCEPT !.mtx = t, !.pc[t] = "in", !.i = IF t = "tick" THEN 1 ELSE @]
    /\ UNCHANGED <<storeVars, tickVars, wdVars, poolVars, lineVars, mouseVars, attachVars,
                   serveVars, hbVars, scriptVars, lateVars>>

\* the destructor of the lock_guard; add of a Scripted entity goes on to its
\* second block
LockRelease(t) ==
    /\ locks.pc[t] = "out"
    /\ locks' = [locks EXCEPT !.mtx = IF @ = t THEN "" ELSE @,
                              !.pc[t] = IF t = "cmd" /\ locks.sect = 1 /\ locks.job["cmd"] = "add"
                                        THEN "want" ELSE "idle",
                              !.sect = IF t = "cmd" /\ @ = 1 /\ locks.job["cmd"] = "add"
                                       THEN 2 ELSE 1]
    /\ UNCHANGED <<storeVars, tickVars, wdVars, poolVars, lineVars, mouseVars, attachVars,
                   serveVars, hbVars, scriptVars, lateVars>>

\* UpdateThread reads the clock and the pointer and calls updateAll
LockTickStart ==
    /\ locks.pc["tick"] = "idle" /\ tickCount < MaxTicks
    /\ locks' = [locks EXCEPT !.pc["tick"] = "want"]
    /\ \E dt \in DtValues : tickDt' = dt
    /\ tickCount' = tickCount + 1
    /\ UNCHANGED <<storeVars, systemPos, elapsedMs, wdVars, poolVars, lineVars, mouseVars,
                   attachVars, serveVars, hbVars, scriptVars, lateVars>>

\* one pass of the for loop of updateAll
LockTickUpdate ==
    /\ locks.pc["tick"] = "in" /\ locks.i <= Len(cursors)
    /\ cursors' = [cursors EXCEPT ![locks.i] = updateCursor(@, tickDt, systemPos)]
    /\ locks' = [Observed(locks, "tick") EXCEPT !.i = @ + 1]
    /\ UNCHANGED <<nextId, gScriptPipes, procs, ahkOk, events, lastCmd, stateFile, mtxHung,
                   relockBuild, roundTrip, tickVars, wdVars, poolVars, lineVars, mouseVars,
                   attachVars, serveVars, hbVars, scriptVars, lateVars>>

\* the for loop of updateAll has come to its end
LockTickEnd ==
    /\ locks.pc["tick"] = "in" /\ locks.i > Len(cursors)
    /\ locks' = [locks EXCEPT !.pc["tick"] = "out"]
    /\ UNCHANGED <<storeVars, tickVars, wdVars, poolVars, lineVars, mouseVars, attachVars,
                   serveVars, hbVars, scriptVars, lateVars>>

\* a line reaches handleCommand; its first statement on the collection is a
\* lock_guard (in addCursor for add)
LockCmdStart(kv) ==
    /\ locks.pc["cmd"] = "idle" /\ locks.jobs < MaxJobs
    /\ locks' = [locks EXCEPT !.pc["cmd"] = "want", !.job = kv, !.jobs = @ + 1]
    /\ UNCHANGED <<storeVars, tickVars, wdVars, poolVars, lineVars, mouseVars, attachVars,
                   serveVars, hbVars, scriptVars, lateVars>>

\* the statements of the block: for add, addCursor in the first block and the
\* launch loop in the second; else the whole branch
LockCmdBlock ==
    /\ locks.pc["cmd"] = "in"
    /\ LET kv == locks.job
           base == AddBase(kv)
           s0 == [World EXCEPT !.nextId = IF base.id >= @ THEN base.id + 1 ELSE @]
           w == IF kv["cmd"] # "add" THEN handleCommand(World, kv)
                ELSE IF locks.sect = 1 THEN addCursor(s0, base)
                ELSE sendOut(AddLaunchLoop(World, 1, base.id), EvAdded(base.id, base.behavior))
       IN /\ Commit(w, kv)
          /\ locks' = [Observed(locks, "cmd") EXCEPT !.pc["cmd"] = IF w.mtxHung THEN "hung" ELSE "out"]
    /\ UNCHANGED <<tickVars, wdVars, poolVars, lineVars, mouseVars, attachVars,
                   serveVars, hbVars, scriptVars, lateVars>>

\* the subprocess of entity 2 writes a pos line
LockReaderStart ==
    /\ locks.pc["reader"] = "idle" /\ locks.posMsgs < MaxPos
    /\ 2 \in gScriptPipes /\ \E p \in procs : p.id = 2
    /\ locks' = [locks EXCEPT !.pc["reader"] = "want", !.posMsgs = @ + 1]
    /\ UNCHANGED <<storeVars, tickVars, wdVars, poolVars, lineVars, mouseVars, attachVars,
                   serveVars, hbVars, scriptVars, lateVars>>

\* for(c2 : cursors) if(c2.id==id) { c2.pos = (x, y); c2.target = c2.pos; }
ScriptPos(cs, id, p) ==
    [i \in DOMAIN cs |-> IF cs[i].id = id THEN [cs[i] EXCEPT !.pos = p, !.target = p] ELSE cs[i]]

LockReaderBlock ==
    /\ locks.pc["reader"] = "in"
    /\ cursors' = ScriptPos(cursors, 2, <<4, 5>>)
    /\ locks' = [Observed(locks, "reader") EXCEPT !.pc["reader"] = "out"]
    /\ UNCHANGED <<nextId, gScriptPipes, procs, ahkOk, events, lastCmd, stateFile, mtxHung,
                   relockBuild, roundTrip, tickVars, wdVars, poolVars, lineVars, mouseVars,
                   attachVars, serveVars, hbVars, scriptVars, lateVars>>

InitLock ==
    /\ LateIdle
    /\ cursors = LockCursors
    /\ nextId = SeedNextId
    /\ gScriptPipes = {2}
    /\ procs = {[pid |-> 1, id |-> 2]}
    /\ events = <<>>
    /\ lastCmd = [cmd |-> "(none)"]
    /\ stateFile = NoFile
    /\ mtxHung = FALSE
    /\ roundTrip = [phase |-> "none", saved |-> <<>>]
    /\ ahkOk = TRUE
    /\ relockBuild \in {"recursive", "deadlock"}
    /\ TickIdle
    /\ WdIdle
    /\ PoolIdle
    /\ LinesIdle
    /\ MouseIdle
    /\ AttachIdle
    /\ ServeIdle
    /\ HbIdle
    /\ ScriptIdle
    /\ locks = [mtx |-> "", pc |-> [t \in LockThreads |-> "idle"], i |-> 1,
                job |-> [cmd |-> "(none)"], sect |-> 1, jobs |-> 0, posMsgs |-> 0,
                bare |-> FALSE, torn |-> FALSE]

NextLock ==
    \/ \E t \in LockThreads : LockAcquire(t)
    \/ \E t \in LockThreads : LockRelease(t)
    \/ LockTickStart
    \/ LockTickUpdate
    \/ LockTickEnd
    \/ \E kv \in LockJobs : LockCmdStart(kv)
    \/ LockCmdBlock
    \/ LockReaderStart
    \/ LockReaderBlock

SpecLock == InitLock /\ [][NextLock]_vars

\* ------------------------------------------------------------ claims, SpecLock
(* C29: a thread that stands inside a block that writes to the entity       *)
(* collection holds gManager.mtx, no write to the collection has been made  *)
(* by a thread that did not hold it, and no write of a command handler or   *)
(* of a script reader has taken effect between the first and the last       *)
(* entity update of a tick pass.                                            *)
C29_MutationsLocked ==
    /\ \A t \in LockThreads : locks.pc[t] \in {"in", "out", "hung"} => locks.mtx = t
    /\ ~locks.bare
    /\ ~locks.torn

\* a tick pass has updated the first entity and not the second while a set
\* line and a pos message wait for the lock
C29_Witness ==
    /\ TickMidPass
    /\ locks.pc["cmd"] = "want" /\ locks.job["cmd"] = "set"
    /\ locks.pc["reader"] = "want"

\* the entities of cs whose behavior is Script, by id
Scripted(cs) == {cs[i].id : i \in {j \in DOMAIN cs : cs[j].behavior = "Script"}}

\* the entity of cs with the id
ById(cs, id) == cs[CHOOSE i \in DOMAIN cs : cs[i].id = id]

(* C31: updateAll leaves a Scripted entity as it is: for every dt and every *)
(* reference point the switch gives back its position, static target and    *)
(* angle, the pass of a tick over it does not change them, and a step that  *)
(* changes the position of an entity that is Scripted before and after it   *)
(* is the pos branch of its script reader.                                  *)
C31_TickKeepsScripted ==
    /\ [][(locks.pc["tick"] = "in" /\ locks'.i = locks.i + 1
              /\ cursors[locks.i].behavior = "Script")
             => /\ cursors'[locks.i].pos = cursors[locks.i].pos
                /\ cursors'[locks.i].target = cursors[locks.i].target
                /\ cursors'[locks.i].angle = cursors[locks.i].angle
                /\ \A dt \in DtValues, sp \in Coords \X Coords :
                       LET u == updateCursor(cursors[locks.i], dt, sp)
                       IN <<u.pos, u.target, u.angle>>
                              = <<cursors[locks.i].pos, cursors[locks.i].target,
                                  cursors[locks.i].angle>>]_vars
    /\ [][\A id \in Scripted(cursors) \cap Scripted(cursors') :
              ById(cursors', id).pos # ById(cursors, id).pos
                  => locks.pc["reader"] = "in" /\ locks'.pc["reader"] = "out"]_vars

\* a tick pass has gone over the Scripted entity 2 after its script moved it
\* to (4, 5) and a set line changed its static target
C31_Witness ==
    /\ locks.pc["tick"] = "in" /\ locks.i = 3
    /\ Len(cursors) = 2 /\ cursors[2].behavior = "Script"
    /\ cursors[2].pos = <<4, 5>> /\ cursors[2].target = <<3, 5>>

\* the steps of the worker's threads; the scheduler lets each runnable
\* thread run
LockSteps ==
    \/ \E t \in LockThreads : LockAcquire(t)
    \/ \E t \in LockThreads : LockRelease(t)
    \/ LockTickUpdate
    \/ LockTickEnd
    \/ LockCmdBlock
    \/ LockReaderBlock

SpecLockFair == SpecLock /\ WF_vars(LockSteps)

(* C33: a command dispatch that has come to its first lock of gManager.mtx  *)
(* returns, the lock once taken is released, and a tick pass that waits for *)
(* the lock gets it.                                                        *)
C33_DispatchReturns ==
    /\ (locks.pc["cmd"] \in {"want", "in"}) ~> (locks.pc["cmd"] = "idle")
    /\ (locks.mtx # "") ~> (locks.mtx = "")
    /\ (locks.pc["tick"] = "want") ~> (locks.pc["tick"] = "in")

\* ------------------------------------------------------------ id assignment
\* (the add branch of handleCommand, statement by statement, in the handlers
\* of two clients: the test of the explicit id against nextId, the store to
\* nextId, and addCursor under the lock)
otherThanIds ==
    <<tickVars, wdVars, poolVars, lineVars, mouseVars, attachVars, serveVars, hbVars,
      scriptVars, lockVars, shutVars, countVars, reloadVars>>

MaxAdds == 2

IdClients == {1, 2}

IdAddLines ==
    {[cmd |-> "add"]} \cup {[cmd |-> "add", id |-> i] : i \in {-1, 0, 6, 7}}

\* a line with cmd add reaches handleCommand in the handler of client c
IdAddArrives(c, kv) ==
    /\ adds[c].pc = "idle" /\ adds[c].n < MaxAdds
    /\ adds' = [adds EXCEPT ![c] = [pc |-> "test", kv |-> kv, n |-> @.n + 1]]
    /\ UNCHANGED <<storeVars, otherThanIds>>

\* if(kv.count("id")) { c.id = atoi(...); if(c.id >= gManager.nextId.load())
IdTest(c) ==
    /\ adds[c].pc = "test"
    /\ adds' = [adds EXCEPT ![c].pc =
                    IF Has(adds[c].kv, "id") /\ adds[c].kv["id"] >= nextId
                    THEN "store" ELSE "push"]
    /\ UNCHANGED <<storeVars, otherThanIds>>

\* gManager.nextId = c.id + 1;
IdStore(c) ==
    /\ adds[c].pc = "store"
    /\ nextId' = adds[c].kv["id"] + 1
    /\ adds' = [adds EXCEPT ![c].pc = "push"]
    /\ UNCHANGED <<cursors, gScriptPipes, procs, ahkOk, events, lastCmd, stateFile,
                   mtxHung, relockBuild, roundTrip, otherThanIds>>

\* int id = gManager.addCursor(c); ... sendOut(added)
IdPush(c) ==
    /\ adds[c].pc = "push"
    /\ LET base == AddBase(adds[c].kv)
       IN Commit(sendOut(addCursor(World, base),
                         EvAdded(addCursorId(World, base), base.behavior)),
                 adds[c].kv)
    /\ adds' = [adds EXCEPT ![c].pc = "idle"]
    /\ UNCHANGED otherThanIds

\* the store after startup and a clear, no add under way
InitIds ==
    /\ StoreInit
    /\ ahkOk = TRUE /\ relockBuild = "recursive"
    /\ TickIdle
    /\ WdIdle
    /\ PoolIdle
    /\ LinesIdle
    /\ MouseIdle
    /\ AttachIdle
    /\ ServeIdle
    /\ HbIdle
    /\ ScriptIdle
    /\ LockIdle
    /\ adds = [c \in IdClients |-> [pc |-> "idle", kv |-> [cmd |-> "(none)"], n |-> 0]]
    /\ threads = <<>>
    /\ gApiCommandCount = 0
    /\ calls = <<>>

NextIds ==
    \/ \E c \in IdClients, kv \in IdAddLines : IdAddArrives(c, kv)
    \/ \E c \in IdClients : IdTest(c)
    \/ \E c \in IdClients : IdStore(c)
    \/ \E c \in IdClients : IdPush(c)

SpecIds == InitIds /\ [][NextIds]_vars

\* ------------------------------------------------------------ claims, SpecIds
(* C32: no entity in the store has an id less than 1.                       *)
C32_PositiveIds == \A i \in DOMAIN cursors : cursors[i].id >= 1

(* C34: nextId is greater than the id of every entity in the store, and an  *)
(* add without an id (or with the id 0) puts no entity into the store whose *)
(* id an entity of the store already had.                                   *)
C34_FreshIds ==
    /\ [](\A i \in DOMAIN cursors : cursors[i].id < nextId)
    /\ [][\A c \in IdClients :
              (adds[c].pc = "push" /\ adds'[c].pc = "idle"
                   /\ Field(adds[c].kv, "id", 0) = 0)
                  => \A i \in DOMAIN cursors :
                         cursors[i].id # cursors'[Len(cursors')].id]_vars

\* ------------------------------------------------------------ shutdown
\* (the exit branch of handleCommand, the end of wWinMain, and the loops of
\* the five threads wWinMain joins)
otherThanShut ==
    <<storeVars, tickVars, wdVars, poolVars, lineVars, mouseVars, attachVars, serveVars,
      hbVars, scriptVars, lockVars, idVars, countVars, reloadVars>>

MaxAttach == 2

\* the std::thread objects of wWinMain, in the order of their join calls
JoinOrder == <<"updater", "pipeServer", "outPipe", "hotReload", "heartbeat">>

\* the threads whose loop is while(gManager.running) { work; sleep }
PollingTasks == {"updater", "pipeServer", "hotReload", "heartbeat"}

\* cmd == "exit": running is cleared and WM_CLOSE posted to the overlay window
ShutExitCommand ==
    /\ threads.main = "messages" /\ threads.running
    /\ threads' = [threads EXCEPT !.running = FALSE, !.closePosted = TRUE]
    /\ UNCHANGED otherThanShut

\* GetMessage returns 0; gManager.running = false; wWinMain turns to its joins
MainLoopEnds ==
    /\ threads.main = "messages" /\ threads.closePosted
    /\ threads' = [threads EXCEPT !.main = "joining", !.running = FALSE]
    /\ UNCHANGED otherThanShut

\* the loop test of a polling thread finds running cleared; the thread
\* returns (InboundListenerPool detaches its workers first)
TaskEnds(t) ==
    /\ threads.pc[t] = "run" /\ ~threads.running
    /\ threads' = [threads EXCEPT !.pc[t] = "done"]
    /\ UNCHANGED otherThanShut

\* OutPipeThread: while(gManager.running) { CreateNamedPipeW; ConnectNamedPipe
OutLoopTest ==
    /\ threads.pc["outPipe"] = "test"
    /\ threads' = [threads EXCEPT !.pc["outPipe"] = IF threads.running THEN "connect" ELSE "done"]
    /\ UNCHANGED otherThanShut

\* a subscriber opens the event channel and ConnectNamedPipe(hPipe, nullptr),
\* which waits without a time limit, returns
OutSubscriberConnects ==
    /\ threads.pc["outPipe"] = "connect" /\ threads.attaches < MaxAttach
    /\ threads' = [threads EXCEPT !.pc["outPipe"] = "serving", !.sub = TRUE,
                                  !.attaches = @ + 1]
    /\ UNCHANGED otherThanShut

\* the subscriber closes its end
OutSubscriberLeaves ==
    /\ threads.pc["outPipe"] = "serving" /\ threads.sub
    /\ threads' = [threads EXCEPT !.sub = FALSE]
    /\ UNCHANGED otherThanShut

\* the wait loop while(gManager.running) is left; DisconnectNamedPipe
OutServeEnds ==
    /\ threads.pc["outPipe"] = "serving"
    /\ ~threads.running \/ ~threads.sub
    /\ threads' = [threads EXCEPT !.pc["outPipe"] = "test", !.sub = FALSE]
    /\ UNCHANGED otherThanShut

\* t.join() returns in wWinMain; after the last one wWinMain returns
MainJoin ==
    /\ threads.main = "joining"
    /\ threads.pc[JoinOrder[threads.joined + 1]] = "done"
    /\ threads' = [threads EXCEPT !.joined = @ + 1,
                                  !.main = IF threads.joined + 1 = Len(JoinOrder)
                                           THEN "returned" ELSE @]
    /\ UNCHANGED otherThanShut

\* wWinMain has started its threads and is in its message loop
InitShutdown ==
    /\ StoreInit
    /\ ahkOk = TRUE /\ relockBuild = "recursive"
    /\ TickIdle
    /\ WdIdle
    /\ PoolIdle
    /\ LinesIdle
    /\ MouseIdle
    /\ AttachIdle
    /\ ServeIdle
    /\ HbIdle
    /\ ScriptIdle
    /\ LockIdle
    /\ adds = <<>>
    /\ gApiCommandCount = 0
    /\ calls = <<>>
    /\ threads = [running |-> TRUE, closePosted |-> FALSE, main |-> "messages", joined |-> 0,
                  pc |-> [t \in Range(JoinOrder) |-> IF t = "outPipe" THEN "test" ELSE "run"],
                  sub |-> FALSE, attaches |-> 0]

\* the steps of the worker's own threads
ShutThreads ==
    \/ MainLoopEnds
    \/ \E t \in PollingTasks : TaskEnds(t)
    \/ OutLoopTest
    \/ OutServeEnds
    \/ MainJoin

NextShutdown ==
    \/ ShutExitCommand
    \/ OutSubscriberConnects
    \/ OutSubscriberLeaves
    \/ ShutThreads

SpecShutdown == InitShutdown /\ [][NextShutdown]_vars

SpecShutdownFair == SpecShutdown /\ WF_vars(ShutThreads)

\* ------------------------------------------------------------ claims, SpecShutdown
(* C36: once running has been cleared, wWinMain comes back from its five    *)
(* joins and returns.                                                       *)
C36_ShutdownEnds == (~threads.running) ~> (threads.main = "returned")

\* ------------------------------------------------------------ command counter
\* (gApiCommandCount: its two increments in handleCommand and its read in
\* the perf branch)
otherThanCount ==
    <<tickVars, wdVars, poolVars, lineVars, mouseVars, attachVars, serveVars, hbVars,
      scriptVars, lockVars, idVars, shutVars, reloadVars>>

MaxCount == 5

\* how often handleCommand executes gApiCommandCount++ on the line kv: once
\* when the line has an op, and once when the chain on cmd is reached, which
\* help and an unknown op do not let happen
apiCommandIncrements(kv) ==
    (IF Has(kv, "op") THEN 1 ELSE 0)
        + (IF Has(kv, "op")
           THEN (IF kv["op"] \in DOMAIN OpToCmd THEN 1 ELSE 0)
           ELSE (IF Has(kv, "cmd") THEN 1 ELSE 0))

\* the legacy name the chain on cmd sees for the line, "" if it is not reached
CanonicalCmd(kv) ==
    IF Has(kv, "op")
    THEN (IF kv["op"] \in DOMAIN OpToCmd THEN OpToCmd[kv["op"]] ELSE "")
    ELSE Field(kv, "cmd", "")

EvPerf(n) == [event |-> "perf", apiCount |-> n]

CountLines ==
    { [cmd |-> "add"], [op |-> "cursor/add"], [cmd |-> "clear"], [op |-> "cursor/list"],
      [cmd |-> "perf"], [op |-> "sys/perf"], [op |-> "help"], [op |-> "cursor/bogus"],
      [cmd |-> "frobnicate"] }

\* handleCommand runs on the line kv to its end
CountedCommand(kv) ==
    /\ gApiCommandCount + apiCommandIncrements(kv) <= MaxCount
    /\ gApiCommandCount' = gApiCommandCount + apiCommandIncrements(kv)
    /\ \E w \in {handleCommand(World, kv)} :
           /\ Bounded(w)
           /\ Commit(IF CanonicalCmd(kv) = "perf"
                     THEN sendOut(w, EvPerf(gApiCommandCount + apiCommandIncrements(kv)))
                     ELSE w, kv)
    /\ UNCHANGED otherThanCount

NextCount == \E kv \in CountLines : CountedCommand(kv)

SpecCount == Init /\ [][NextCount]_vars

\* ------------------------------------------------------------ claims, SpecCount
\* the line names an operation handleCommand has a branch for
Recognized(kv) ==
    IF Has(kv, "op") THEN kv["op"] \in DOMAIN OpToCmd \cup {"help"}
    ELSE Field(kv, "cmd", "") \in LegacyCmds

(* C38: the dispatch of a line with a recognized operation, given by op or  *)
(* by cmd, raises the counter that perf reports by exactly one, and perf    *)
(* reports the counter.                                                     *)
C38_CountsOnce ==
    [][/\ Recognized(lastCmd') => gApiCommandCount' = gApiCommandCount + 1
       /\ CanonicalCmd(lastCmd') = "perf" => events' = <<EvPerf(gApiCommandCount')>>]_vars

\* ------------------------------------------------------------ reload and load
\* (ReloadConfigIfChanged(true) and LoadState, line by line, with the calls
\* of handleCommand they make and the calls those make in turn)
otherThanReload ==
    <<tickVars, wdVars, poolVars, lineVars, mouseVars, attachVars, serveVars, hbVars,
      scriptVars, lockVars, idVars, shutVars, countVars>>

MaxFileLen == 2
MaxDepth == 4

\* the lines a config file or a state file is made of
FileLines == {[cmd |-> "clear"], [cmd |-> "reload"], [cmd |-> "load"]}

Files == UNION {[1 .. n -> FileLines] : n \in 0 .. MaxFileLen}

\* the file a reload or load command reads: kConfigFile or kStateFile
FileOf(cmd) == IF cmd = "reload" THEN "config" ELSE "state"

LinesOf(f) == IF f = "config" THEN calls.config ELSE stateFile.lines

\* the innermost call of ReloadConfigIfChanged or LoadState
Top == calls.stack[Len(calls.stack)]

\* a reload or load line reaches handleCommand from a client: the file is
\* opened and its first line is up
ReloadArrives(cmd) ==
    /\ calls.status = "idle"
    /\ calls' = [calls EXCEPT !.status = "running",
                              !.stack = <<[file |-> FileOf(cmd), i |-> 1]>>]
    /\ UNCHANGED <<storeVars, otherThanReload>>

\* while(std::getline(in, line)) handleCommand(line), the line being a reload
\* or a load: handleCommand calls ReloadConfigIfChanged(true) or LoadState,
\* which opens its file while the caller's loop waits
CallDispatchesNested ==
    /\ calls.status = "running" /\ Top.i <= Len(LinesOf(Top.file))
    /\ LinesOf(Top.file)[Top.i]["cmd"] \in {"reload", "load"}
    /\ Len(calls.stack) < MaxDepth
    /\ calls' = [calls EXCEPT
                    !.stack = Append([@ EXCEPT ![Len(@)].i = @ + 1],
                                     [file |-> FileOf(LinesOf(Top.file)[Top.i]["cmd"]),
                                      i |-> 1]),
                    !.dispatched[Top.file][Top.i] = @ + 1]
    /\ UNCHANGED <<storeVars, otherThanReload>>

\* while(std::getline(in, line)) handleCommand(line), any other line
CallDispatchesLine ==
    /\ calls.status = "running" /\ Top.i <= Len(LinesOf(Top.file))
    /\ LinesOf(Top.file)[Top.i]["cmd"] \notin {"reload", "load"}
    /\ \E w \in {handleCommand(World, LinesOf(Top.file)[Top.i])} :
           Commit(w, LinesOf(Top.file)[Top.i])
    /\ calls' = [calls EXCEPT !.stack[Len(calls.stack)].i = @ + 1,
                              !.dispatched[Top.file][Top.i] = @ + 1]
    /\ UNCHANGED otherThanReload

\* getline finds the end of the file: LoadState makes its relaunch loop, the
\* call returns to the loop that dispatched its line, or to the client's
\* handler
CallReturns ==
    /\ calls.status = "running" /\ Top.i > Len(LinesOf(Top.file))
    /\ IF Top.file = "state"
       THEN \E w \in {LoadRelaunchLoop(World, 1)} : Commit(w, [cmd |-> "load"])
       ELSE UNCHANGED storeVars
    /\ calls' = [calls EXCEPT !.stack = SubSeq(@, 1, Len(@) - 1),
                              !.status = IF Len(calls.stack) = 1 THEN "returned" ELSE @]
    /\ UNCHANGED otherThanReload

\* the store after startup and a clear, a config file and a state file of any
\* content, no reload or load under way
InitReload ==
    /\ cursors = <<>>
    /\ nextId = SeedNextId
    /\ gScriptPipes = {}
    /\ procs = {}
    /\ events = <<>>
    /\ lastCmd = [cmd |-> "(none)"]
    /\ \E f \in Files : stateFile = [exists |-> TRUE, lines |-> f]
    /\ mtxHung = FALSE
    /\ roundTrip = [phase |-> "none", saved |-> <<>>]
    /\ ahkOk = TRUE /\ relockBuild = "recursive"
    /\ TickIdle
    /\ WdIdle
    /\ PoolIdle
    /\ LinesIdle
    /\ MouseIdle
    /\ AttachIdle
    /\ ServeIdle
    /\ HbIdle
    /\ ScriptIdle
    /\ LockIdle
    /\ adds = <<>>
    /\ threads = <<>>
    /\ gApiCommandCount = 0
    /\ \E f \in Files :
           calls = [status |-> "idle", stack |-> <<>>, config |-> f,
                    dispatched |-> [x \in {"config", "state"} |->
                                       [i \in 1 .. MaxFileLen |-> 0]]]

\* the steps of the thread that dispatches the command
ReloadSteps == CallDispatchesNested \/ CallDispatchesLine \/ CallReturns

NextReload ==
    \/ \E cmd \in {"reload", "load"} : ReloadArrives(cmd)
    \/ CallDispatchesNested
    \/ CallDispatchesLine
    \/ CallReturns

SpecReload == InitReload /\ [][NextReload]_vars

SpecReloadFair == SpecReload /\ WF_vars(ReloadSteps)

\* ------------------------------------------------------------ claims, SpecReload
(* C39: a reload or load command that has been taken up returns, and no     *)
(* line of the config file or of the state file is dispatched more often    *)
(* than there are calls that can read its file without reading it twice     *)
(* (MaxFileLen + 1: one by the command, one per line of the other file).    *)
C39_ReloadTerminates ==
    /\ (calls.status = "running") ~> (calls.status = "returned")
    /\ [](calls.status # "idle"
            => \A f \in {"config", "state"}, i \in 1 .. MaxFileLen :
                   calls.dispatched[f][i] <= MaxFileLen + 1)

====
